---- MODULE Spec2Model ----
(***************************************************************************)
(* Model of paradrop/core/container/dockerapi.py: the namespace executor   *)
(* (call_retry, call_in_netns), the image manager's stream monitors        *)
(* (_pull_image, _build_image) and the port binding resolver               *)
(* (prepare_port_bindings).                                                *)
(***************************************************************************)
EXTENDS Integers, Sequences, FiniteSets, TLC

\* ------------------------------------------------------------------ bounds
\* Largest value of the `tries` argument explored for call_retry.
MaxTries == 3
\* Exit codes a launched process may end with: 0..MaxExit.
MaxExit == 1

\* ------------------------------------------------------ program constants
\* call_in_netns: call_retry(cmd, env, tries=1)
NetnsTries == 1

\* ---------------------------------------------------------- Python values
\* Python's None and ints are kept apart, so that `None != 0` is True as in
\* the interpreter.
PyNone == <<"None">>
PyInt(n) == <<"int", n>>
NoValue == <<"unset">>

ExitCodes == 0..MaxExit

VARIABLES
    \* call_retry
    crPc,        \* position inside call_retry
    crTries0,    \* the `tries` argument as passed
    crTries,     \* the local variable `tries`
    crTrace,     \* what call_retry did so far: launches and sleeps, in order
    crProc,      \* the Popen object of the successful launch
    crRet,       \* the value call_retry returned
    \* call_in_netns
    nsPc,        \* position inside call_in_netns
    nsOnerror,   \* the `onerror` argument
    nsPidGiven,  \* whether the caller passed a pid
    nsCode,      \* the local variable `code`
    nsFallbacks, \* number of times the docker exec fallback block was entered
    nsExecs,     \* sequence of exit codes of commands run by exec_run
    nsError,     \* the exception that left call_in_netns, if any
    \* _pull_image
    pullPc,       \* position inside _pull_image
    pullSeen,     \* the records the pull stream has yielded so far
    layers,       \* the local variable `layers`
    complete,     \* the local variable `complete`
    pullProgress, \* number of messages given to update.progress
    pullError,    \* the exception that left _pull_image, if any
    \* _build_image
    buildPc,       \* position inside _build_image
    buildArgs,     \* the service type, Dockerfile validity and `inline` flag
    buildSeen,     \* the lines the build stream has yielded so far
    buildSuccess,  \* the local variable `buildSuccess`
    buildProgress, \* the messages given to update.progress
    buildError,    \* the exception that left _build_image, if any
    \* prepare_port_bindings
    pbPc,       \* position inside prepare_port_bindings
    pbService,  \* the service: its name, its requested port-bindings, chute.web
    pbOld,      \* the container of the prior version, as the runtime reports it
    pbBindings, \* the local variable `bindings`
    pbOldBindings, \* the local variable `old_bindings`
    pbError,    \* the exception that left prepare_port_bindings, if any
    pbEntry,    \* service.requests["port-bindings"] as it was at entry
    \* the container runtime, and the container lifecycle operations
    containers, \* container name -> "absent", "running" or "exited"
    networks,   \* the names of the user-defined bridge networks
    connected,  \* the containers connected to the chute's bridge
    lcPc,       \* position inside the lifecycle operation in progress
    lcOp,       \* the operation in progress, or the last one
    lcService,  \* the name of the service the operation is about
    lcEntry,    \* the runtime's state when the operation was entered
    lcCalls,    \* the runtime calls the operation has issued, in order
    lcProgress, \* the update's progress log
    lcResult,   \* how the operation ended: "returned" or "raised"
    lcOps,      \* number of operations entered so far
    \* setup_net_interfaces and cleanup_net_interfaces
    ifPc,         \* position inside setup_net_interfaces
    ifInterfaces, \* update.cache_get('networkInterfaces')
    ifIdx,        \* index of the interface the loop is at
    ifStep,       \* index of the next command of that interface
    ifBorrowed,   \* the local variable `borrowedInterfaces`
    ifCache,      \* the update's cache entry 'borrowedInterfaces'
    ifCmds,       \* the commands setup_net_interfaces has issued, in order
    ifPids,       \* what getPID found, for each interface the loop got to
    clRuns,       \* number of calls of cleanup_net_interfaces so far
    clEntry,      \* the cache entry the last cleanup found
    clCmds,       \* the commands the cleanups have issued, in order
    clResult,     \* how the last cleanup ended: "returned" or "raised"
    \* _setResourceAllocation
    raPc,         \* position inside _setResourceAllocation
    raCaller,     \* setResourceAllocation or revertResourceAllocation
    raAllocation, \* the allocation map, in the order it is iterated
    raIdx,        \* index of the container the loop is at
    raShares,     \* the container.update(cpu_shares=...) calls made, in order
    raWrites,     \* the classifier writes attempted, in order
    \* removeAllContainers
    swPc,       \* position inside removeAllContainers
    swListed,   \* client.containers.list(all=True): the state of each container
    swIdx,      \* index of the container the loop is at
    swAttempts, \* the container.remove(force=True) calls made, in order
    swProgress, \* the messages given to update.progress
    \* Service
    svService,       \* the Service object
    svContainerName, \* what get_container_name() returned
    svImageName,     \* what get_image_name() returned
    \* prepare_image
    piPc,         \* "idle", or "called" once prepare_image chose the worker
    piType,       \* service.type
    piConcurrent, \* settings.CONCURRENT_BUILDS
    piSelection,  \* the worker function, its arguments and its wrapper
    piDockerfile, \* where the generated Dockerfile of a light service went
    piIssued,     \* the client.pull / client.build calls issued
    \* prepare_environment
    pePc,         \* position inside prepare_environment
    peChuteEnv,   \* the chute's environment map
    peServiceEnv, \* service.environment
    peEntry,      \* both maps as they were when the function was entered
    peEnv,        \* the local variable `env`
    \* ConfigApi.provision
    pvPc,        \* "idle", "pending" (the DeferredList was returned) or "answered"
    pvBody,      \* the request's routerId, pdserver, wampRouter and apitoken
    pvCalls,     \* the calls the handler made on the device's state and agents
    pvWamp,      \* the Deferred of nexus.core.connect(WampSession)
    pvHttp,      \* the Deferred of sendStateReport()
    pvTimer,     \* the delayed call reactor.callLater(6, dl.cancel)
    pvClock,     \* seconds since the handler ran
    pvResponses  \* the responses produced for the request, in order

crVars == <<crPc, crTries0, crTries, crTrace, crProc, crRet>>
nsVars == <<nsPc, nsOnerror, nsPidGiven, nsCode, nsFallbacks, nsExecs, nsError>>
pullVars == <<pullPc, pullSeen, layers, complete, pullProgress, pullError>>
buildVars == <<buildPc, buildArgs, buildSeen, buildSuccess, buildProgress, buildError>>
pbVars == <<pbPc, pbService, pbOld, pbBindings, pbOldBindings, pbError, pbEntry>>
rtVars == <<containers, networks, connected>>
lcVars == <<lcPc, lcOp, lcService, lcEntry, lcCalls, lcProgress, lcResult, lcOps>>
ifVars == <<ifPc, ifInterfaces, ifIdx, ifStep, ifBorrowed, ifCache, ifCmds, ifPids>>
clVars == <<clRuns, clEntry, clCmds, clResult>>
plumberVars == <<ifVars, clVars>>
raVars == <<raPc, raCaller, raAllocation, raIdx, raShares, raWrites>>
swVars == <<swPc, swListed, swIdx, swAttempts, swProgress>>
svVars == <<svService, svContainerName, svImageName>>
piVars == <<piPc, piType, piConcurrent, piSelection, piDockerfile, piIssued>>
peVars == <<pePc, peChuteEnv, peServiceEnv, peEntry, peEnv>>
pvVars == <<pvPc, pvBody, pvCalls, pvWamp, pvHttp, pvTimer, pvClock, pvResponses>>
vars == <<crVars, nsVars, pullVars, buildVars, pbVars, rtVars, lcVars, plumberVars, raVars, swVars, svVars, piVars, peVars, pvVars>>

\* What each component leaves alone.
notNetns == <<pullVars, buildVars, pbVars, rtVars, lcVars, plumberVars, raVars, swVars, svVars, piVars, peVars, pvVars>>
notPull == <<crVars, nsVars, buildVars, pbVars, rtVars, lcVars, plumberVars, raVars, swVars, svVars, piVars, peVars, pvVars>>
notBuild == <<crVars, nsVars, pullVars, pbVars, rtVars, lcVars, plumberVars, raVars, swVars, svVars, piVars, peVars, pvVars>>
notPorts == <<crVars, nsVars, pullVars, buildVars, rtVars, lcVars, plumberVars, raVars, swVars, svVars, piVars, peVars, pvVars>>
notLifecycle == <<crVars, nsVars, pullVars, buildVars, pbVars, plumberVars, raVars, swVars, svVars, piVars, peVars, pvVars>>
notPlumber == <<crVars, nsVars, pullVars, buildVars, pbVars, rtVars, lcVars, raVars, swVars, svVars, piVars, peVars, pvVars>>
notAllocation == <<crVars, nsVars, pullVars, buildVars, pbVars, rtVars, lcVars, plumberVars, swVars, svVars, piVars, peVars, pvVars>>
notSweep == <<crVars, nsVars, pullVars, buildVars, pbVars, rtVars, lcVars, plumberVars, raVars, svVars, piVars, peVars, pvVars>>
notService == <<crVars, nsVars, pullVars, buildVars, pbVars, rtVars, lcVars, plumberVars, raVars, swVars, piVars, peVars, pvVars>>
notPrepare == <<crVars, nsVars, pbVars, rtVars, lcVars, plumberVars, raVars, swVars, svVars, peVars, pvVars>>
notEnvironment == <<crVars, nsVars, pullVars, buildVars, pbVars, rtVars, lcVars, plumberVars, raVars, swVars, svVars, piVars, pvVars>>
notProvision == <<crVars, nsVars, pullVars, buildVars, pbVars, rtVars, lcVars, plumberVars, raVars, swVars, svVars, piVars, peVars>>

\* ------------------------------------------------------------- call_retry
NoProc == [launched |-> FALSE, exit |-> 0, returncode |-> PyNone]

\* subprocess.Popen succeeded: the child runs and will end with exit status e.
\* Popen sets returncode to None; only poll(), wait() or communicate() store
\* the exit status in it, and call_retry calls none of them.
Popen(e) == [launched |-> TRUE, exit |-> e, returncode |-> PyNone]

CrIdle ==
    /\ crPc = "idle"
    /\ crTries0 = 0
    /\ crTries = 0
    /\ crTrace = <<>>
    /\ crProc = NoProc
    /\ crRet = NoValue

\* Entry of call_retry(cmd, env, delay, tries).
CrEnter(tries) ==
    /\ crPc' = "while"
    /\ crTries0' = tries
    /\ crTries' = tries
    /\ crTrace' = <<>>
    /\ crProc' = NoProc
    /\ crRet' = NoValue

\* while tries >= 0: tries -= 1
CrWhile ==
    /\ crPc = "while"
    /\ IF crTries >= 0
         THEN /\ crTries' = crTries - 1
              /\ crPc' = "popen"
              /\ crRet' = crRet
         ELSE \* the loop ends and the function falls off its end
              /\ crTries' = crTries
              /\ crPc' = "returned"
              /\ crRet' = PyNone
    /\ UNCHANGED <<crTries0, crTrace, crProc>>

\* The value of `return proc.returncode`.
ReturnValue(proc) == proc.returncode

\* proc = subprocess.Popen(...) launches the process; the output is read
\* to its end and proc.returncode is returned.
CrPopenOk ==
    /\ crPc = "popen"
    /\ \E e \in ExitCodes :
         /\ crProc' = Popen(e)
         /\ crRet' = ReturnValue(Popen(e))
    /\ crTrace' = Append(crTrace, "launch")
    /\ crPc' = "returned"
    /\ UNCHANGED <<crTries0, crTries>>

\* subprocess.Popen raises OSError: control goes to the except clause.
CrPopenOSError ==
    /\ crPc = "popen"
    /\ crTrace' = Append(crTrace, "oserror")
    /\ crPc' = "except"
    /\ UNCHANGED <<crTries0, crTries, crProc, crRet>>

\* The test of the except clause: if tries <= 0: raise e
GivesUp(tries) == tries <= 0

\* except OSError as e: ... if tries <= 0: raise e
CrExcept ==
    /\ crPc = "except"
    /\ crPc' = IF GivesUp(crTries) THEN "raised" ELSE "sleep"
    /\ UNCHANGED <<crTries0, crTries, crTrace, crProc, crRet>>

\* time.sleep(delay), then back to the loop test.
CrSleep ==
    /\ crPc = "sleep"
    /\ crTrace' = Append(crTrace, "sleep")
    /\ crPc' = "while"
    /\ UNCHANGED <<crTries0, crTries, crProc, crRet>>

CrStep == CrWhile \/ CrPopenOk \/ CrPopenOSError \/ CrExcept \/ CrSleep

CrDone == crPc \in {"returned", "raised"}

\* Number of launch attempts (Popen calls) made so far.
RECURSIVE CountOf(_, _)
CountOf(s, kinds) ==
    IF s = <<>> THEN 0
    ELSE (IF Head(s) \in kinds THEN 1 ELSE 0) + CountOf(Tail(s), kinds)

Launches == CountOf(crTrace, {"launch", "oserror"})
Sleeps == CountOf(crTrace, {"sleep"})


\* ---------------------------------------------------------- call_in_netns
NsIdle ==
    /\ nsPc = "idle"
    /\ nsOnerror = "raise"
    /\ nsPidGiven = FALSE
    /\ nsCode = NoValue
    /\ nsFallbacks = 0
    /\ nsExecs = <<>>
    /\ nsError = "none"

\* A caller other than call_in_netns runs call_retry(cmd, env, tries=...).
DirectCall ==
    /\ nsPc = "idle"
    /\ crPc = "idle"
    /\ \E tries \in 0..MaxTries : CrEnter(tries)
    /\ UNCHANGED nsVars
    /\ UNCHANGED notNetns

\* call_in_netns(service, env, command, onerror, pid) is entered.
NsCall ==
    /\ nsPc = "idle"
    /\ crPc = "idle"
    /\ \E onerror \in {"raise", "ignore"}, pidGiven \in BOOLEAN :
         /\ nsOnerror' = onerror
         /\ nsPidGiven' = pidGiven
         /\ nsPc' = IF pidGiven THEN "nsenter" ELSE "getpid"
    /\ UNCHANGED <<nsCode, nsFallbacks, nsExecs, nsError, crVars>>
    /\ UNCHANGED notNetns

\* if pid is None: pid = ChuteContainer(container_name).getPID()
NsGetPidOk ==
    /\ nsPc = "getpid"
    /\ nsPc' = "nsenter"
    /\ UNCHANGED <<nsOnerror, nsPidGiven, nsCode, nsFallbacks, nsExecs, nsError, crVars>>
    /\ UNCHANGED notNetns

\* getPID raises (the container does not exist); nothing catches it.
NsGetPidRaises ==
    /\ nsPc = "getpid"
    /\ nsPc' = "raised"
    /\ nsError' = "getPID"
    /\ UNCHANGED <<nsOnerror, nsPidGiven, nsCode, nsFallbacks, nsExecs, crVars>>
    /\ UNCHANGED notNetns

\* try: code = call_retry(cmd, env, tries=1)
NsPrimaryCall ==
    /\ nsPc = "nsenter"
    /\ CrEnter(NetnsTries)
    /\ nsPc' = "primary"
    /\ UNCHANGED <<nsOnerror, nsPidGiven, nsCode, nsFallbacks, nsExecs, nsError>>
    /\ UNCHANGED notNetns

\* call_retry runs, inside call_in_netns or for a direct caller.
CallRetryRuns ==
    /\ nsPc \in {"idle", "primary"}
    /\ CrStep
    /\ UNCHANGED nsVars
    /\ UNCHANGED notNetns

\* code = <what call_retry returned>; except: code = -1
NsPrimaryEnd ==
    /\ nsPc = "primary"
    /\ CrDone
    /\ nsCode' = IF crPc = "returned" THEN crRet ELSE PyInt(-1)
    /\ nsPc' = "check"
    /\ UNCHANGED <<nsOnerror, nsPidGiven, nsFallbacks, nsExecs, nsError, crVars>>
    /\ UNCHANGED notNetns

NeedsFallbackWhenPositive(code) == code[1] = "int" /\ code[2] > 0

\* if code != 0:
NeedsFallback(code) == code # PyInt(0)

NsCheck ==
    /\ nsPc = "check"
    /\ IF NeedsFallback(nsCode)
         THEN /\ nsPc' = "fallback"
              /\ nsFallbacks' = nsFallbacks + 1
         ELSE /\ nsPc' = "returned"
              /\ nsFallbacks' = nsFallbacks
    /\ UNCHANGED <<nsOnerror, nsPidGiven, nsCode, nsExecs, nsError, crVars>>
    /\ UNCHANGED notNetns

\* except Exception: if onerror == "raise": raise
AfterFallbackError(onerror) == IF onerror = "raise" THEN "raised" ELSE "returned"

\* docker.DockerClient(...) or client.containers.get(container_name) raises:
\* exec_run is not reached.
NsFallbackLookupRaises ==
    /\ nsPc = "fallback"
    /\ nsPc' = AfterFallbackError(nsOnerror)
    /\ nsError' = IF nsOnerror = "raise" THEN "lookup" ELSE nsError
    /\ UNCHANGED <<nsOnerror, nsPidGiven, nsCode, nsFallbacks, nsExecs, crVars>>
    /\ UNCHANGED notNetns

\* container.exec_run(command, user='root') raises an API error.
NsFallbackExecRaises ==
    /\ nsPc = "fallback"
    /\ nsExecs' = Append(nsExecs, <<"APIError">>)
    /\ nsPc' = AfterFallbackError(nsOnerror)
    /\ nsError' = IF nsOnerror = "raise" THEN "exec_run" ELSE nsError
    /\ UNCHANGED <<nsOnerror, nsPidGiven, nsCode, nsFallbacks, crVars>>
    /\ UNCHANGED notNetns

\* container.exec_run(command, user='root') returns: the command ran in the
\* container and ended with exit code e; the result is not looked at.
NsFallbackExecReturns ==
    /\ nsPc = "fallback"
    /\ \E e \in ExitCodes : nsExecs' = Append(nsExecs, PyInt(e))
    /\ nsPc' = "returned"
    /\ UNCHANGED <<nsOnerror, nsPidGiven, nsCode, nsFallbacks, nsError, crVars>>
    /\ UNCHANGED notNetns

NsDone == nsPc \in {"returned", "raised"}

\* ------------------------------------------------------------ _pull_image
\* Longest pull stream explored.
MaxStream == 5

\* Records of the pull stream after json.loads: the keys a record may lack
\* are "absent"; progressDetail is "empty" for {} and "bar" for a dict with
\* a moving progress bar in it.
PullRecords == {
    [progressDetail |-> "empty",  status |-> "Pulling fs layer", id |-> "a1"],
    [progressDetail |-> "absent", status |-> "Pull complete",    id |-> "a1"],
    [progressDetail |-> "empty",  status |-> " PULL COMPLETE ",  id |-> "a1"],
    [progressDetail |-> "bar",    status |-> "Pulling fs layer", id |-> "a1"],
    [progressDetail |-> "empty",  status |-> "Pull complete",    id |-> "absent"],
    [progressDetail |-> "empty",  status |-> "Downloading",      id |-> "a1"],
    [progressDetail |-> "absent", status |-> "absent",           id |-> "a1"] }

\* data['status'].strip().lower()
StripLower(status) ==
    CASE status = "Pulling fs layer" -> "pulling fs layer"
      [] status = "Pull complete"    -> "pull complete"
      [] status = " PULL COMPLETE "  -> "pull complete"
      [] status = "Downloading"      -> "downloading"
      [] OTHER                       -> status

\* if data.get('progressDetail', {}) == {}: ... and neither key is missing
Counted(data) ==
    /\ data.progressDetail \in {"absent", "empty"}
    /\ data.status # "absent"
    /\ data.id # "absent"

PullIdle ==
    /\ pullPc = "idle"
    /\ pullSeen = <<>>
    /\ layers = 0
    /\ complete = 0
    /\ pullProgress = 0
    /\ pullError = "none"

\* update.progress("Pulling image: ..."); layers = 0; complete = 0;
\* output = client.pull(image_name, auth_config=None, stream=True)
PullEnter ==
    /\ pullPc = "idle"
    /\ pullPc' = "stream"
    /\ pullProgress' = pullProgress + 1
    /\ layers' = 0
    /\ complete' = 0
    /\ UNCHANGED <<pullSeen, pullError>>

\* _pull_image called on its own.
PullCall ==
    /\ PullEnter
    /\ UNCHANGED notPull

\* One turn of `for line in output`.
PullLine ==
    /\ pullPc = "stream"
    /\ Len(pullSeen) < MaxStream
    /\ \E data \in PullRecords :
         /\ pullSeen' = Append(pullSeen, data)
         /\ IF Counted(data)
              THEN /\ pullProgress' = pullProgress + 1
                   /\ layers' = IF StripLower(data.status) = "pulling fs layer"
                                  THEN layers + 1 ELSE layers
                   /\ complete' = IF StripLower(data.status) = "pull complete"
                                    THEN complete + 1 ELSE complete
              ELSE UNCHANGED <<pullProgress, layers, complete>>
    /\ UNCHANGED <<pullPc, pullError>>
    /\ UNCHANGED notPull

\* The stream raises while it is read (the registry or the daemon failed).
PullStreamRaises ==
    /\ pullPc = "stream"
    /\ pullPc' = "raised"
    /\ pullError' = "stream"
    /\ UNCHANGED <<pullSeen, layers, complete, pullProgress>>
    /\ UNCHANGED notPull

PullFailedLoose(c, l) == c + 1 < l
PullFailedNever(c, l) == FALSE

\* if complete < layers: raise Exception("Error pulling Docker image")
PullFailed(c, l) == c < l

\* The stream ends: update.progress("Finished pulling ..."), then the test.
PullEnd ==
    /\ pullPc = "stream"
    /\ pullProgress' = pullProgress + 1
    /\ IF PullFailed(complete, layers)
         THEN pullPc' = "raised" /\ pullError' = "pull"
         ELSE pullPc' = "returned" /\ pullError' = pullError
    /\ UNCHANGED <<pullSeen, layers, complete>>
    /\ UNCHANGED notPull

\* ----------------------------------------------------------- _build_image
\* Longest build stream explored.
MaxBuildLines == 3

\* A line of the build stream is the text of one JSON object: here the
\* sequence of its members, each with its key and its value. A string value
\* is the sequence of its words, a dict value the words of its own text.
BuildLines == {
    << [key |-> "stream", kind |-> "str", text |-> <<"Step", "1/2", "\n">>] >>,
    << [key |-> "errorDetail", kind |-> "dict", text |-> <<"message", "failed">>],
       [key |-> "error", kind |-> "str", text |-> <<"failed">>] >>,
    << [key |-> "stream", kind |-> "str", text |-> <<"echo", "errorDetail", "\n">>] >>,
    << [key |-> "aux", kind |-> "dict", text |-> <<"ID", "sha256">>] >>,
    << [key |-> "status", kind |-> "str", text |-> <<"Downloading">>],
       [key |-> "progressDetail", kind |-> "dict", text |-> <<"current", "total">>],
       [key |-> "id", kind |-> "str", text |-> <<"862a3e9af0ae">>] >>,
    << [key |-> "stream", kind |-> "str", text |-> <<"\n">>] >> }

\* The words of the line's text: its keys and everything inside its values.
RawWords(line) ==
    UNION { {line[i].key} \cup { line[i].text[j] : j \in 1..Len(line[i].text) }
            : i \in 1..Len(line) }

\* json.loads(line) has the key errorDetail.
HasKey(line, k) == \E i \in 1..Len(line) : line[i].key = k

\* if 'errorDetail' in line: the test is made on the line's text, before it
\* is parsed.
ErrorInLine(line) == "errorDetail" \in RawWords(line)

\* value.rstrip()
RECURSIVE Rstrip(_)
Rstrip(text) ==
    IF text # <<>> /\ text[Len(text)] \in {"\n", " "}
      THEN Rstrip(SubSeq(text, 1, Len(text) - 1))
      ELSE text

\* suppress_re.match(msg): one of the two markers, a single lower-case
\* id-like word, or a progress bar.
Suppressed(msg) ==
    /\ Len(msg) = 1
    /\ msg[1] \in {"Downloading", "Extracting", "862a3e9af0ae", "failed", "echo"}

\* for key, value in json.loads(line).iteritems(): the messages of one line
\* that reach update.progress.
RECURSIVE LineProgress(_)
LineProgress(line) ==
    IF line = <<>> THEN <<>>
    ELSE LET value == Head(line)
             msg == Rstrip(value.text)
         IN  (IF value.kind # "dict" /\ Len(msg) > 0 /\ ~Suppressed(msg)
                THEN <<msg>> ELSE <<>>) \o LineProgress(Tail(line))

BuildIdle ==
    /\ buildPc = "idle"
    /\ buildArgs = [type |-> "normal", valid |-> TRUE, inline |-> FALSE]
    /\ buildSeen = <<>>
    /\ buildSuccess = TRUE
    /\ buildProgress = <<>>
    /\ buildError = "none"

\* Entry of _build_image: for a light service the Dockerfile is generated
\* and validated; then output = client.build(**buildArgs); buildSuccess = True
BuildEnter(type, valid, inline) ==
    /\ buildPc = "idle"
    /\ type # "light" => valid
    /\ buildArgs' = [type |-> type, valid |-> valid, inline |-> inline]
    /\ IF type = "light" /\ ~valid
         THEN buildPc' = "raised" /\ buildError' = "invalid"
         ELSE buildPc' = "stream" /\ buildError' = buildError
    /\ buildSuccess' = TRUE
    /\ UNCHANGED <<buildSeen, buildProgress>>

\* _build_image called on its own, for any service and either way of
\* passing the Dockerfile.
BuildCall ==
    /\ \E type \in {"light", "inline", "normal"}, valid \in BOOLEAN, inline \in BOOLEAN :
         BuildEnter(type, valid, inline)
    /\ UNCHANGED notBuild

\* One turn of `for line in output`.
BuildLine ==
    /\ buildPc = "stream"
    /\ Len(buildSeen) < MaxBuildLines
    /\ \E line \in BuildLines :
         /\ buildSeen' = Append(buildSeen, line)
         /\ buildSuccess' = IF ErrorInLine(line) THEN FALSE ELSE buildSuccess
         /\ buildProgress' = buildProgress \o LineProgress(line)
    /\ UNCHANGED <<buildPc, buildArgs, buildError>>
    /\ UNCHANGED notBuild

\* client.build or the stream raises (the daemon failed).
BuildStreamRaises ==
    /\ buildPc = "stream"
    /\ buildPc' = "raised"
    /\ buildError' = "stream"
    /\ UNCHANGED <<buildArgs, buildSeen, buildSuccess, buildProgress>>
    /\ UNCHANGED notBuild

\* if not buildSuccess: raise Exception("Error building Docker image")
BuildEnd ==
    /\ buildPc = "stream"
    /\ IF ~buildSuccess
         THEN buildPc' = "raised" /\ buildError' = "build"
         ELSE buildPc' = "returned" /\ buildError' = buildError
    /\ UNCHANGED <<buildArgs, buildSeen, buildSuccess, buildProgress>>
    /\ UNCHANGED notBuild

\* -------------------------------------------------- prepare_port_bindings
\* Dictionary keys and values keep their Python type: an int and the string
\* of its digits are different keys.
IntOf(digits) == <<"int", digits>>
StrOf(text) == <<"str", text>>

\* str(web_port)
Str(v) == StrOf(v[2])

\* "{}/tcp".format(web_port)
TcpKey(v) == StrOf(v[2] \o "/tcp")

\* The keys a port-bindings request may hold, and the values it may give.
RequestKeys == {IntOf("80"), StrOf("80"), StrOf("80/tcp"), StrOf("443/tcp")}
RequestValues == {PyNone, IntOf("9000")}

\* The dictionaries with keys among K and values among V.
Dicts(K, V) == UNION { [D -> V] : D \in SUBSET K }

\* NetworkSettings.Ports of a container: a port that is exposed but not
\* published maps to None, a published one to the list of its host bindings.
OldKeys == {StrOf("80/tcp"), StrOf("443/tcp")}
OldValues == {PyNone, <<"list", <<[HostIp |-> "0.0.0.0", HostPort |-> StrOf("8080")]>> >>}

Services ==
    [ name : {PyNone, StrOf("main"), StrOf("db")},
      portBindings : Dicts(RequestKeys, RequestValues),
      webPort : {PyNone, IntOf("80"), StrOf("80")},
      webService : {PyNone, StrOf("main")} ]

EmptyDict == [k \in {} |-> PyNone]

PbIdle ==
    /\ pbPc = "idle"
    /\ pbService = [name |-> PyNone, portBindings |-> EmptyDict,
                    webPort |-> PyNone, webService |-> PyNone]
    /\ pbOld = <<"absent">>
    /\ pbBindings = EmptyDict
    /\ pbOldBindings = EmptyDict
    /\ pbError = "none"
    /\ pbEntry = EmptyDict

BindingsAliased == FALSE

\* .copy(): bindings is a new dict, not the service's own.
BindingsIsACopy == TRUE

\* What an assignment to bindings[...] leaves in the service's own map.
ServiceAfter(service, bindings) ==
    IF BindingsIsACopy THEN service ELSE [service EXCEPT !.portBindings = bindings]

\* bindings = service.requests.get("port-bindings", {}).copy()
PbCall ==
    /\ pbPc = "idle"
    /\ \E service \in Services :
         /\ pbService' = service
         /\ pbBindings' = service.portBindings
         /\ pbEntry' = service.portBindings
    /\ \E old \in {<<"absent">>} \cup { <<"container", d>> : d \in Dicts(OldKeys, OldValues) } :
         pbOld' = old
    /\ pbPc' = "web"
    /\ UNCHANGED <<pbOldBindings, pbError>>
    /\ UNCHANGED notPorts

WebKeysNoString(web_port) == {web_port, TcpKey(web_port)}

\* keys = [web_port, str(web_port), "{}/tcp".format(web_port)]
WebKeys(web_port) == {web_port, Str(web_port), TcpKey(web_port)}

\* if web_port is not None and web_service == service.name:
\*     if not any(k in bindings for k in keys): bindings[".../tcp"] = None
WithWebPort(bindings, service) ==
    IF /\ service.webPort # PyNone
       /\ service.webService = service.name
       /\ WebKeys(service.webPort) \cap DOMAIN bindings = {}
      THEN [k \in DOMAIN bindings \cup {TcpKey(service.webPort)} |->
              IF k = TcpKey(service.webPort) THEN PyNone ELSE bindings[k]]
      ELSE bindings

PbWebPort ==
    /\ pbPc = "web"
    /\ pbBindings' = WithWebPort(pbBindings, pbService)
    /\ pbService' = ServiceAfter(pbService, WithWebPort(pbBindings, pbService))
    /\ pbPc' = "inspect"
    /\ UNCHANGED <<pbOld, pbOldBindings, pbError, pbEntry>>
    /\ UNCHANGED notPorts

\* try: old_bindings = container.inspect()['NetworkSettings']['Ports']
\* except ChuteNotFound: old_bindings = {}
PbInspect ==
    /\ pbPc = "inspect"
    /\ pbOldBindings' = IF pbOld[1] = "absent" THEN EmptyDict ELSE pbOld[2]
    /\ pbPc' = "inherit"
    /\ UNCHANGED <<pbService, pbOld, pbBindings, pbError, pbEntry>>
    /\ UNCHANGED notPorts

\* The keys the loop takes a host port for: value is None and key in old_bindings
Inheriting(bindings, old) ==
    { k \in DOMAIN bindings : bindings[k] = PyNone /\ k \in DOMAIN old }

InheritedAlways(bindings, old) ==
    [k \in DOMAIN bindings |->
        IF k \in DOMAIN old /\ old[k][1] = "list" THEN old[k][2][1].HostPort
        ELSE bindings[k]]

\* bindings[key] = old_bindings[key][0]['HostPort'] for each such key
Inherited(bindings, old) ==
    [k \in DOMAIN bindings |->
        IF k \in Inheriting(bindings, old) THEN old[k][2][1].HostPort
        ELSE bindings[k]]

\* for key, value in bindings.iteritems(): ...; return bindings.
\* Subscripting the None of an unpublished port raises TypeError.
PbInherit ==
    /\ pbPc = "inherit"
    /\ IF \E k \in Inheriting(pbBindings, pbOldBindings) : pbOldBindings[k] = PyNone
         THEN /\ pbPc' = "raised"
              /\ pbError' = "TypeError"
              /\ pbBindings' = pbBindings
              /\ pbService' = pbService
         ELSE /\ pbPc' = "returned"
              /\ pbError' = pbError
              /\ pbBindings' = Inherited(pbBindings, pbOldBindings)
              /\ pbService' = ServiceAfter(pbService, Inherited(pbBindings, pbOldBindings))
    /\ UNCHANGED <<pbOld, pbOldBindings, pbEntry>>
    /\ UNCHANGED notPorts

\* --------------------------------------- the container lifecycle manager
\* Number of lifecycle operations explored in a row.
MaxOps == 2
\* Log lines a container may hold beyond the ones remove_container asks for.
MaxExtraLog == 1

\* remove_container: container.logs(stream=False, tail=40, timestamps=False)
LogTail == 40

\* The update's chute: update.name, update.new.name.
ChuteName == "c"
ServiceNames == {PyNone, StrOf("main")}

\* Service.get_container_name: the chute's name when the service has no
\* name, "<chute>-<service>" otherwise.
ContainerName(chute, name) ==
    IF name = PyNone THEN chute ELSE chute \o "-" \o name[2]

ContainerNames == { ContainerName(ChuteName, n) : n \in ServiceNames }

\* The numbers of lines a container's log may hold.
LogSizes == {0, LogTail - 1, LogTail, LogTail + MaxExtraLog}

LastLinesAll(n) == n

\* logs(tail=40): the last 40 lines of a log of n lines
LastLines(n) == IF n > LogTail THEN LogTail ELSE n

Runtime == [containers |-> containers, networks |-> networks, connected |-> connected]

\* What an operation finds when it is entered.
Entry == [runtime |-> Runtime, progress |-> Len(lcProgress)]

RtEmpty ==
    /\ containers = [n \in ContainerNames |-> "absent"]
    /\ networks = {}
    /\ connected = {}

\* Any state the runtime may be in when an update reaches these operations.
RtAny ==
    /\ containers \in [ContainerNames -> {"absent", "running", "exited"}]
    /\ networks \in SUBSET {ChuteName}
    /\ connected \in SUBSET { n \in ContainerNames : containers[n] # "absent" }
    /\ connected # {} => ChuteName \in networks

LcIdle ==
    /\ lcPc = "idle"
    /\ lcOp = "none"
    /\ lcService = PyNone
    /\ lcCalls = <<>>
    /\ lcProgress = <<>>
    /\ lcEntry = Entry
    /\ lcResult = "none"
    /\ lcOps = 0

\* The pipeline calls one of the operations for a service of the chute.
LcEnter(op, first) ==
    /\ lcPc = "idle"
    /\ lcOps < MaxOps
    /\ lcOps' = lcOps + 1
    /\ lcOp' = op
    /\ \E name \in ServiceNames : lcService' = name
    /\ lcEntry' = Entry
    /\ lcCalls' = <<>>
    /\ lcResult' = "none"
    /\ lcPc' = first
    /\ UNCHANGED <<rtVars, lcProgress>>
    /\ UNCHANGED notLifecycle

\* The operation ends, by returning or by raising.
LcLeave(result) ==
    /\ lcPc' = "idle"
    /\ lcResult' = result

LcName == ContainerName(ChuteName, lcService)

\* ------------------------------------------------------------ remove_bridge
RemoveBridgeCall == LcEnter("remove_bridge", "rb_get")

\* network = client.networks.get(update.new.name)
\* except docker.errors.NotFound: pass
RemoveBridgeGet ==
    /\ lcPc = "rb_get"
    /\ lcCalls' = Append(lcCalls, <<"networks.get", ChuteName>>)
    /\ IF ChuteName \in networks
         THEN lcPc' = "rb_remove" /\ lcResult' = lcResult
         ELSE LcLeave("returned")
    /\ UNCHANGED <<rtVars, lcOp, lcService, lcEntry, lcProgress, lcOps>>
    /\ UNCHANGED notLifecycle

\* network.remove() succeeds, or the runtime refuses (APIError, not caught).
RemoveBridgeRemove ==
    /\ lcPc = "rb_remove"
    /\ lcCalls' = Append(lcCalls, <<"network.remove", ChuteName>>)
    /\ \E ok \in BOOLEAN :
         IF ok
           THEN /\ networks' = networks \ {ChuteName}
                /\ connected' = {}
                /\ LcLeave("returned")
           ELSE /\ UNCHANGED <<networks, connected>>
                /\ LcLeave("raised")
    /\ UNCHANGED <<containers, lcOp, lcService, lcEntry, lcProgress, lcOps>>
    /\ UNCHANGED notLifecycle

\* --------------------------------------------------------- remove_container
RemoveContainerCall == LcEnter("remove_container", "rc_get")

RemoveContainerOnErrorRaise == "raised"

\* What `except Exception as error: out.warn(...)` makes of an error raised
\* inside the try block of remove_container.
RemoveContainerOnError == "returned"

\* container = client.containers.get(container_name)
RemoveContainerGet ==
    /\ lcPc = "rc_get"
    /\ lcCalls' = Append(lcCalls, <<"containers.get", LcName>>)
    /\ IF containers[LcName] # "absent"
         THEN lcPc' = "rc_logs" /\ lcResult' = lcResult
         ELSE LcLeave(RemoveContainerOnError)
    /\ UNCHANGED <<rtVars, lcOp, lcService, lcEntry, lcProgress, lcOps>>
    /\ UNCHANGED notLifecycle

\* logs = container.logs(stream=False, tail=40, timestamps=False)
\* update.progress("{}: {}".format(container_name, logs.rstrip()))
\* Either call may raise.
RemoveContainerLogs ==
    /\ lcPc = "rc_logs"
    /\ lcCalls' = Append(lcCalls, <<"container.logs", LcName>>)
    /\ \E n \in LogSizes, outcome \in {"ok", "logs raises", "progress raises"} :
         IF outcome = "ok"
           THEN /\ lcProgress' = Append(lcProgress, [container |-> LcName,
                                                    lines |-> LastLines(n), of |-> n])
                /\ lcPc' = "rc_remove"
                /\ lcResult' = lcResult
           ELSE /\ lcProgress' = lcProgress
                /\ LcLeave(RemoveContainerOnError)
    /\ UNCHANGED <<rtVars, lcOp, lcService, lcEntry, lcOps>>
    /\ UNCHANGED notLifecycle

\* container.remove(force=True) succeeds, or raises.
RemoveContainerRemove ==
    /\ lcPc = "rc_remove"
    /\ lcCalls' = Append(lcCalls, <<"container.remove", LcName>>)
    /\ \E ok \in BOOLEAN :
         IF ok
           THEN /\ containers' = [containers EXCEPT ![LcName] = "absent"]
                /\ connected' = connected \ {LcName}
                /\ LcLeave("returned")
           ELSE /\ UNCHANGED <<containers, connected>>
                /\ LcLeave(RemoveContainerOnError)
    /\ UNCHANGED <<networks, lcOp, lcService, lcEntry, lcProgress, lcOps>>
    /\ UNCHANGED notLifecycle

\* ---------------------------------------------------------- start_container
StartContainerCall == LcEnter("start_container", "sc_config")

\* host_config = build_host_config(update, service);
\* environment = prepare_environment(update, service): either may raise.
StartContainerConfig ==
    /\ lcPc = "sc_config"
    /\ \E ok \in BOOLEAN :
         IF ok THEN lcPc' = "sc_run" /\ lcResult' = lcResult
               ELSE LcLeave("raised")
    /\ UNCHANGED <<rtVars, lcOp, lcService, lcEntry, lcCalls, lcProgress, lcOps>>
    /\ UNCHANGED notLifecycle

\* container = client.containers.run(detach=True, ..., name=container_name)
\* except Exception as e: raise e
\* The runtime refuses a name that is in use; it may fail for other reasons.
StartContainerRun ==
    /\ lcPc = "sc_run"
    /\ lcCalls' = Append(lcCalls, <<"containers.run", LcName>>)
    /\ \E ok \in BOOLEAN :
         IF ok /\ containers[LcName] = "absent"
           THEN /\ containers' = [containers EXCEPT ![LcName] = "running"]
                /\ lcPc' = "sc_netget"
                /\ lcResult' = lcResult
           ELSE /\ containers' = containers
                /\ LcLeave("raised")
    /\ UNCHANGED <<networks, connected, lcOp, lcService, lcEntry, lcProgress, lcOps>>
    /\ UNCHANGED notLifecycle

StartContainerBridgeMissingFatal == "raised"

\* except docker.errors.NotFound: out.warn("Bridge network ... not found ...")
StartContainerBridgeMissing == "returned"

\* network = client.networks.get(update.new.name)
StartContainerNetGet ==
    /\ lcPc = "sc_netget"
    /\ lcCalls' = Append(lcCalls, <<"networks.get", ChuteName>>)
    /\ IF ChuteName \in networks
         THEN lcPc' = "sc_connect" /\ lcResult' = lcResult
         ELSE LcLeave(StartContainerBridgeMissing)
    /\ UNCHANGED <<rtVars, lcOp, lcService, lcEntry, lcProgress, lcOps>>
    /\ UNCHANGED notLifecycle

\* network.connect(container_name, aliases=[service.name]) succeeds, or the
\* runtime refuses (APIError, not caught).
StartContainerConnect ==
    /\ lcPc = "sc_connect"
    /\ lcCalls' = Append(lcCalls, <<"network.connect", LcName>>)
    /\ \E ok \in BOOLEAN :
         IF ok
           THEN connected' = connected \cup {LcName} /\ LcLeave("returned")
           ELSE connected' = connected /\ LcLeave("raised")
    /\ UNCHANGED <<containers, networks, lcOp, lcService, lcEntry, lcProgress, lcOps>>
    /\ UNCHANGED notLifecycle

\* ------------------------------------------------- stopChute, restartChute
StopChuteCall == LcEnter("stopChute", "st_get")

RestartChuteCall == LcEnter("restartChute", "rs_get")

\* c.containers.get(update.name): the name looked up is the update's name.
LookupName(update, service) == update

\* container = c.containers.get(update.name): NotFound is not caught.
ChuteGet ==
    /\ lcPc \in {"st_get", "rs_get"}
    /\ lcCalls' = Append(lcCalls, <<"containers.get", LookupName(ChuteName, lcService)>>)
    /\ IF containers[LookupName(ChuteName, lcService)] # "absent"
         THEN lcPc' = (IF lcPc = "st_get" THEN "st_stop" ELSE "rs_start")
              /\ lcResult' = lcResult
         ELSE LcLeave("raised")
    /\ UNCHANGED <<rtVars, lcOp, lcService, lcEntry, lcProgress, lcOps>>
    /\ UNCHANGED notLifecycle

\* container.stop() / container.start() succeeds, or raises.
ChuteStopStart ==
    /\ lcPc \in {"st_stop", "rs_start"}
    /\ lcCalls' = Append(lcCalls,
          <<IF lcPc = "st_stop" THEN "container.stop" ELSE "container.start",
            LookupName(ChuteName, lcService)>>)
    /\ \E ok \in BOOLEAN :
         IF ok
           THEN /\ containers' = [containers EXCEPT ![LookupName(ChuteName, lcService)] =
                                    IF lcPc = "st_stop" THEN "exited" ELSE "running"]
                /\ LcLeave("returned")
           ELSE /\ containers' = containers
                /\ LcLeave("raised")
    /\ UNCHANGED <<networks, connected, lcOp, lcService, lcEntry, lcProgress, lcOps>>
    /\ UNCHANGED notLifecycle

\* ------------------------------------------------- the interface plumber
\* setup_net_interfaces and cleanup_net_interfaces of one update.  The host
\* commands go through call_retry(cmd, env, tries=1), which launches the
\* command once, reads its output to the end and returns without looking at
\* its exit status, or raises when the launch fails; the namespace commands
\* go through call_in_netns, which returns or, with onerror="raise", raises.
MaxIfaces == 2
MaxCleanups == 2

\* iface.get('type', 'wifi') and iface.get('mode', 'ap')
InterfaceKinds ==
    { [type |-> "lan", mode |-> "ap"],
      [type |-> "vlan", mode |-> "ap"],
      [type |-> "wifi", mode |-> "ap"],
      [type |-> "wifi", mode |-> "monitor"],
      [type |-> "wifi", mode |-> "sta"],
      [type |-> "_lan", mode |-> "ap"] }

InterfaceLists ==
    UNION { [1..n -> InterfaceKinds] : n \in 0..MaxIfaces }

\* The branch of the if/elif chain an interface takes.
Branch(iface) ==
    IF iface.type = "lan" \/ iface.type = "vlan"
          \/ (iface.type = "wifi" /\ iface.mode = "ap")
      THEN "macvlan"
      ELSE IF iface.type = "wifi" /\ iface.mode = "monitor"
             THEN "monitor"
             ELSE IF iface.type = "_lan" THEN "_lan" ELSE "none"

Host(cmd) == [cmd |-> cmd, where |-> "host"]
Netns(cmd) == [cmd |-> cmd, where |-> "netns"]

PlanRenameOnHost(branch) ==
    IF branch = "macvlan"
      THEN << Host("ip link add link external dev tmp type macvlan"),
              Host("ip link set tmp up"),
              Host("ip link set tmp name internal"),
              Host("ip link set tmp netns pid"),
              Netns("ip addr add IP dev internal"),
              Netns("ip link set internal up") >>
      ELSE IF branch = "monitor"
             THEN << Host("iw phy set netns pid"),
                     Netns("ip link set dev external up name internal") >>
             ELSE IF branch = "_lan"
                    THEN << Host("ip link set dev external up netns pid name internal") >>
                    ELSE << >>

\* The commands of a branch, in the order of the code.
Plan(branch) ==
    CASE branch = "macvlan" ->
           << Host("ip link add link external dev tmp type macvlan"),
              Host("ip link set tmp up"),
              Host("ip link set tmp netns pid"),
              Netns("ip link set tmp name internal"),
              Netns("ip addr add IP dev internal"),
              Netns("ip link set internal up") >>
      [] branch = "monitor" ->
           << Host("iw phy set netns pid"),
              Netns("ip link set dev external up name internal") >>
      [] branch = "_lan" ->
           << Host("ip link set dev external up netns pid name internal") >>
      [] OTHER -> << >>

\* The host commands that move a device into the container's namespace.
Moves(cmd) ==
    cmd \in { "ip link set tmp netns pid",
              "iw phy set netns pid",
              "ip link set dev external up netns pid name internal" }

\* The branches that end with borrowedInterfaces.append(...).
Borrows(branch) == branch \in {"monitor", "_lan"}

\* The dict appended for interface i.
BorrowedRecord(branch, i) ==
    IF branch = "monitor"
      THEN [type |-> "wifi", pid |-> <<"pid", i>>, internal |-> <<"internal", i>>,
            external |-> <<"external", i>>, phy |-> <<"phy", i>>]
      ELSE [type |-> "lan", pid |-> <<"pid", i>>, internal |-> <<"internal", i>>,
            external |-> <<"external", i>>]

\* The value of update.cache_get('borrowedInterfaces')
ListOf(records) == <<"list", records>>
EmptyList == ListOf(<< >>)

IfIdle ==
    /\ ifPc = "idle"
    /\ ifInterfaces = << >>
    /\ ifIdx = 0
    /\ ifStep = 0
    /\ ifBorrowed = << >>
    /\ ifCache = PyNone
    /\ ifCmds = << >>
    /\ ifPids = << >>
    /\ clRuns = 0
    /\ clEntry = PyNone
    /\ clCmds = << >>
    /\ clResult = "none"

IfBranch == Branch(ifInterfaces[ifIdx])

\* setup_net_interfaces(update) is called; borrowedInterfaces = []
SetupCall ==
    /\ ifPc = "idle"
    /\ \E interfaces \in InterfaceLists : ifInterfaces' = interfaces
    /\ ifPc' = "loop"
    /\ ifIdx' = 1
    /\ ifStep' = 0
    /\ ifBorrowed' = << >>
    /\ UNCHANGED <<ifCache, ifCmds, ifPids, clVars>>
    /\ UNCHANGED notPlumber

\* ChuteContainer.getPID(): the process id of the container when it exists;
\* it raises when there is no such container.
GetPID(exists) == IF exists THEN "pid" ELSE "raises"

SetupCatchesPidError == "continue"

\* The call of getPID is in no try block: what it raises leaves
\* setup_net_interfaces.
SetupOnPidError == "raise"

\* for iface in interfaces: ... pid = container.getPID()
\* The container of the interface's service exists or does not.
SetupGetPid ==
    /\ ifPc = "loop"
    /\ ifIdx <= Len(ifInterfaces)
    /\ \E exists \in BOOLEAN :
          /\ ifPids' = Append(ifPids, IF exists THEN "pid" ELSE "missing")
          /\ IF GetPID(exists) = "raises" /\ SetupOnPidError = "raise"
               THEN ifPc' = "raised" /\ ifStep' = ifStep
               ELSE ifPc' = "command" /\ ifStep' = 1
    /\ UNCHANGED <<ifInterfaces, ifIdx, ifBorrowed, ifCache, ifCmds, clVars>>
    /\ UNCHANGED notPlumber

\* call_retry(cmd, env, tries=1): the command is launched, and exits with
\* some status nobody looks at, or the launch raises OSError.  The status
\* is followed for the commands that move a device, and left open for the
\* others.
SetupHostCommand ==
    /\ ifPc = "command"
    /\ ifStep <= Len(Plan(IfBranch))
    /\ LET step == Plan(IfBranch)[ifStep]
       IN  /\ step.where = "host"
           /\ \/ /\ \E e \in ExitCodes :
                       ifCmds' = Append(ifCmds,
                           [iface |-> ifIdx, cmd |-> step.cmd, where |-> "host",
                            exit |-> IF Moves(step.cmd) THEN e ELSE "any"])
                 /\ ifStep' = ifStep + 1
                 /\ ifPc' = ifPc
              \/ /\ ifPc' = "raised"
                 /\ UNCHANGED <<ifCmds, ifStep>>
    /\ UNCHANGED <<ifInterfaces, ifIdx, ifBorrowed, ifCache, ifPids, clVars>>
    /\ UNCHANGED notPlumber

\* call_in_netns(service, env, cmd): returns, or raises what the fallback
\* raised (onerror is "raise").
SetupNetnsCommand ==
    /\ ifPc = "command"
    /\ ifStep <= Len(Plan(IfBranch))
    /\ LET step == Plan(IfBranch)[ifStep]
       IN  /\ step.where = "netns"
           /\ \E outcome \in {"returned", "raised"} :
                 /\ ifCmds' = Append(ifCmds,
                       [iface |-> ifIdx, cmd |-> step.cmd, where |-> "netns",
                        outcome |-> outcome])
                 /\ IF outcome = "returned"
                      THEN ifStep' = ifStep + 1 /\ ifPc' = ifPc
                      ELSE ifStep' = ifStep /\ ifPc' = "raised"
    /\ UNCHANGED <<ifInterfaces, ifIdx, ifBorrowed, ifCache, ifPids, clVars>>
    /\ UNCHANGED notPlumber

\* The end of the branch: borrowedInterfaces.append({...}) for a monitor or
\* _lan interface, and on to the next interface.
SetupRecord ==
    /\ ifPc = "command"
    /\ ifStep > Len(Plan(IfBranch))
    /\ ifBorrowed' = IF Borrows(IfBranch)
                       THEN Append(ifBorrowed, BorrowedRecord(IfBranch, ifIdx))
                       ELSE ifBorrowed
    /\ ifIdx' = ifIdx + 1
    /\ ifStep' = 0
    /\ ifPc' = "loop"
    /\ UNCHANGED <<ifInterfaces, ifCache, ifCmds, ifPids, clVars>>
    /\ UNCHANGED notPlumber

\* update.cache_set('borrowedInterfaces', borrowedInterfaces)
SetupStore ==
    /\ ifPc = "loop"
    /\ ifIdx > Len(ifInterfaces)
    /\ ifCache' = ListOf(ifBorrowed)
    /\ ifPc' = "returned"
    /\ UNCHANGED <<ifInterfaces, ifIdx, ifStep, ifBorrowed, ifCmds, ifPids, clVars>>
    /\ UNCHANGED notPlumber

\* ------------------------------------------------- cleanup_net_interfaces
CacheNeverAbsent(cache) == FALSE

\* if borrowedInterfaces is None
CacheAbsent(cache) == cache = PyNone

\* iface['service'] raises KeyError for a dict without that key.
HasService(record) == "service" \in DOMAIN record

\* The commands of one pass of the loop body, in the order of the code.
\* With onerror="ignore" and the pid passed in, call_in_netns does not raise.
RecordCommands(record) ==
    IF record.type = "wifi"
      THEN << [device |-> record.external, cmd |-> "ip link set dev internal down name external"],
              [device |-> record.external, cmd |-> "iw phy set netns 1"],
              [device |-> record.external, cmd |-> "resetWirelessDevice"] >>
      ELSE IF record.type = "lan"
             THEN << [device |-> record.external,
                      cmd |-> "ip link set dev internal down netns 1 name external"] >>
             ELSE << >>

\* for iface in borrowedInterfaces: from record i on.
RECURSIVE CleanupFrom(_, _)
CleanupFrom(records, i) ==
    IF i > Len(records)
      THEN [result |-> "returned", cmds |-> << >>]
      ELSE IF ~HasService(records[i])
             THEN [result |-> "raised", cmds |-> << >>]
             ELSE LET rest == CleanupFrom(records, i + 1)
                  IN  [result |-> rest.result,
                       cmds |-> RecordCommands(records[i]) \o rest.cmds]

\* What one call of cleanup_net_interfaces does with the cache entry.
CleanupOutcome(cache) ==
    IF CacheAbsent(cache)
      THEN [result |-> "returned", cmds |-> << >>]
      ELSE IF cache[1] # "list"
             THEN [result |-> "raised", cmds |-> << >>]
             ELSE CleanupFrom(cache[2], 1)

\* cleanup_net_interfaces(update), between or after the other steps.  It
\* reads the cache entry and never writes it.
CleanupNetInterfaces ==
    /\ ifPc \in {"idle", "returned", "raised"}
    /\ clRuns < MaxCleanups
    /\ clRuns' = clRuns + 1
    /\ clEntry' = ifCache
    /\ LET outcome == CleanupOutcome(ifCache)
       IN  /\ clResult' = outcome.result
           /\ clCmds' = clCmds \o
                 [k \in 1..Len(outcome.cmds) |->
                     [run |-> clRuns + 1, device |-> outcome.cmds[k].device,
                      cmd |-> outcome.cmds[k].cmd]]
    /\ UNCHANGED ifVars
    /\ UNCHANGED notPlumber

\* ------------------------------------------------ _setResourceAllocation
MaxAlloc == 2

PyTrue == <<"bool", TRUE>>
PyFalse == <<"bool", FALSE>>

\* Python's truth value of the values a resources dict holds here.
Truthy(value) == value = PyTrue

\* dict.get(key, default), the key's value being NoValue when it is missing
DictGet(value, default) == IF value = NoValue THEN default ELSE value

CpuShares == {512, 1024}

\* The resources of one container: cpu_shares, and prioritize_traffic, which
\* may be missing.
Resources ==
    [cpu_shares : CpuShares,
     prioritize_traffic : {NoValue, PyTrue, PyFalse, PyNone}]

\* The allocation maps, as the sequence of their values in iteration order;
\* container i is the i-th key.
Allocations == UNION { [1..n -> Resources] : n \in 0..MaxAlloc }

ClassIdPriorityByDefault(resources) ==
    IF Truthy(DictGet(resources.prioritize_traffic, PyTrue))
      THEN "0x10001" ELSE "0x10003"

\* if resources.get('prioritize_traffic', False): classid = "0x10001"
\* else: classid = "0x10003"
ClassId(resources) ==
    IF Truthy(DictGet(resources.prioritize_traffic, PyFalse))
      THEN "0x10001" ELSE "0x10003"

ClassifierErrorRaises == "raise"

\* except Exception as error: out.warn("Error setting traffic class: ...")
ClassifierOnError == "continue"

RaIdle ==
    /\ raPc = "idle"
    /\ raCaller = "none"
    /\ raAllocation = << >>
    /\ raIdx = 0
    /\ raShares = << >>
    /\ raWrites = << >>

\* setResourceAllocation(update) or revertResourceAllocation(update) calls
\* _setResourceAllocation with the allocation it found in the cache.
RaCall ==
    /\ raPc = "idle"
    /\ \E caller \in {"setResourceAllocation", "revertResourceAllocation"} :
          raCaller' = caller
    /\ \E allocation \in Allocations : raAllocation' = allocation
    /\ raIdx' = 1
    /\ raPc' = "cpu_shares"
    /\ UNCHANGED <<raShares, raWrites>>
    /\ UNCHANGED notAllocation

\* container = client.containers.get(container_name)
\* container.update(cpu_shares=resources['cpu_shares'])
\* Neither call is inside a try block.
RaCpuShares ==
    /\ raPc = "cpu_shares"
    /\ raIdx <= Len(raAllocation)
    /\ \/ /\ raShares' = Append(raShares,
                [container |-> raIdx, cpu_shares |-> raAllocation[raIdx].cpu_shares])
          /\ raPc' = "classid"
       \/ /\ raPc' = "raised"
          /\ raShares' = raShares
    /\ UNCHANGED <<raCaller, raAllocation, raIdx, raWrites>>
    /\ UNCHANGED notAllocation

\* The try block: getID, open the classifier file, write the class id.
RaClassId ==
    /\ raPc = "classid"
    /\ \E outcome \in {"written", "getID raised", "write raised"} :
          /\ raWrites' = Append(raWrites,
                [container |-> raIdx, classid |-> ClassId(raAllocation[raIdx]),
                 outcome |-> outcome])
          /\ IF outcome # "written" /\ ClassifierOnError = "raise"
               THEN raPc' = "raised" /\ raIdx' = raIdx
               ELSE raPc' = "cpu_shares" /\ raIdx' = raIdx + 1
    /\ UNCHANGED <<raCaller, raAllocation, raShares>>
    /\ UNCHANGED notAllocation

\* The loop is over.
RaReturn ==
    /\ raPc = "cpu_shares"
    /\ raIdx > Len(raAllocation)
    /\ raPc' = "returned"
    /\ UNCHANGED <<raCaller, raAllocation, raIdx, raShares, raWrites>>
    /\ UNCHANGED notAllocation

\* --------------------------------------------------- removeAllContainers
MaxListed == 3

\* The containers of the host, running or not (all=True).
Listings == UNION { [1..n -> {"running", "exited"}] : n \in 0..MaxListed }

\* The errors a forced removal may end with.
RemovalErrors == {"409 Conflict", "500 Server Error"}

SweepErrorRaises == "raise"

\* except Exception as e: update.progress(str(e))
SweepOnError == "continue"

SwIdle ==
    /\ swPc = "idle"
    /\ swListed = << >>
    /\ swIdx = 0
    /\ swAttempts = << >>
    /\ swProgress = << >>

\* removeAllContainers(update) is called and lists the containers; the
\* listing is not inside a try block.
SweepCall ==
    /\ swPc = "idle"
    /\ \/ /\ \E listed \in Listings : swListed' = listed
          /\ swIdx' = 1
          /\ swPc' = "loop"
       \/ /\ swPc' = "raised"
          /\ UNCHANGED <<swListed, swIdx>>
    /\ UNCHANGED <<swAttempts, swProgress>>
    /\ UNCHANGED notSweep

\* One turn of the loop: container.remove(force=True)
SweepRemove ==
    /\ swPc = "loop"
    /\ swIdx <= Len(swListed)
    /\ \/ /\ swAttempts' = Append(swAttempts, [container |-> swIdx, removed |-> TRUE])
          /\ swIdx' = swIdx + 1
          /\ UNCHANGED <<swPc, swProgress>>
       \/ \E error \in RemovalErrors :
             /\ swAttempts' = Append(swAttempts, [container |-> swIdx, removed |-> FALSE])
             /\ IF SweepOnError = "raise"
                  THEN /\ swPc' = "raised"
                       /\ UNCHANGED <<swIdx, swProgress>>
                  ELSE /\ swProgress' = Append(swProgress, error)
                       /\ swIdx' = swIdx + 1
                       /\ swPc' = swPc
    /\ UNCHANGED swListed
    /\ UNCHANGED notSweep

\* The loop is over.
SweepReturn ==
    /\ swPc = "loop"
    /\ swIdx > Len(swListed)
    /\ swPc' = "returned"
    /\ UNCHANGED <<swListed, swIdx, swAttempts, swProgress>>
    /\ UNCHANGED notSweep

\* ---------------------------------------------------------------- Service
\* The Service objects: the chute they belong to, their name (None for an
\* old-style single-service chute), their type and their declared image.
ServiceTypes == {"light", "normal", "image", "inline"}

ServiceObjects ==
    [chute : [name : {"c", "d"}, version : {"1", "2"}],
     name : {PyNone, StrOf("main"), StrOf("db")},
     type : ServiceTypes,
     image : {PyNone, StrOf("python2"), StrOf("nginx:1")}]

get_container_name_by_type(service) ==
    IF service.name = PyNone \/ service.type = "light"
      THEN service.chute.name
      ELSE service.chute.name \o "-" \o service.name[2]

\* Service.get_container_name
get_container_name(service) == ContainerName(service.chute.name, service.name)

get_image_name_declared_first(service) ==
    IF service.image = PyNone
      THEN StrOf(get_container_name(service) \o ":" \o service.chute.version)
      ELSE service.image

\* Service.get_image_name
get_image_name(service) ==
    IF service.image = PyNone \/ service.type = "light"
      THEN StrOf(get_container_name(service) \o ":" \o service.chute.version)
      ELSE service.image

SvIdle ==
    /\ svService = [chute |-> [name |-> "c", version |-> "1"], name |-> PyNone,
                    type |-> "normal", image |-> PyNone]
    /\ svContainerName = NoValue
    /\ svImageName = NoValue

\* Any Service object, none of its methods called yet.
SvAny ==
    /\ svService \in ServiceObjects
    /\ svContainerName = NoValue
    /\ svImageName = NoValue

\* service.get_container_name()
SvGetContainerName ==
    /\ svContainerName = NoValue
    /\ svContainerName' = StrOf(get_container_name(svService))
    /\ UNCHANGED <<svService, svImageName>>
    /\ UNCHANGED notService

\* service.get_image_name()
SvGetImageName ==
    /\ svImageName = NoValue
    /\ svImageName' = get_image_name(svService)
    /\ UNCHANGED <<svService, svContainerName>>
    /\ UNCHANGED notService

\* ---------------------------------------------------------- prepare_image
\* if settings.CONCURRENT_BUILDS: wrapper = deferToThread else: wrapper = call
Wrapper(concurrent) == IF concurrent THEN "deferToThread" ELSE "call"

\* The if/elif/else on service.type: the worker function, its `inline`
\* argument and what it is given to build from.
Selection(type) ==
    IF type = "image"
      THEN [fn |-> "_pull_image", inline |-> FALSE, source |-> "name"]
      ELSE IF type = "inline"
             THEN [fn |-> "_build_image", inline |-> TRUE, source |-> "fileobj"]
             ELSE [fn |-> "_build_image", inline |-> FALSE, source |-> "path"]

\* _build_image, for a light service with a valid Dockerfile:
\* buildArgs['fileobj'] = dockerfile.getBytesIO() if inline, otherwise
\* dockerfile.writeFile(os.path.join(buildArgs['path'], "Dockerfile"))
GeneratedDockerfile(type, valid, inline) ==
    IF type = "light" /\ valid
      THEN (IF inline THEN "fileobj" ELSE "file in workdir")
      ELSE "none"

NoSelection == [fn |-> "none", inline |-> FALSE, source |-> "none", wrapper |-> "none"]

PiIdle ==
    /\ piPc = "idle"
    /\ piType = "none"
    /\ piConcurrent = FALSE
    /\ piSelection = NoSelection
    /\ piDockerfile = "none"
    /\ piIssued = << >>

\* prepare_image(update, service): the worker function is chosen and
\* entered, in a worker thread or in the calling one.
PrepareImageCall ==
    /\ piPc = "idle"
    /\ piPc' = "called"
    /\ \E type \in ServiceTypes, valid \in BOOLEAN, concurrent \in BOOLEAN :
         LET sel == Selection(type)
         IN  /\ piType' = type
             /\ piConcurrent' = concurrent
             /\ piSelection' = [fn |-> sel.fn, inline |-> sel.inline,
                                source |-> sel.source, wrapper |-> Wrapper(concurrent)]
             /\ IF sel.fn = "_pull_image"
                  THEN /\ valid
                       /\ PullEnter
                       /\ piDockerfile' = "none"
                       /\ piIssued' = <<"client.pull">>
                       /\ UNCHANGED buildVars
                  ELSE /\ BuildEnter(type, valid, sel.inline)
                       /\ piDockerfile' = GeneratedDockerfile(type, valid, sel.inline)
                       /\ piIssued' = IF type = "light" /\ ~valid
                                        THEN << >> ELSE <<"client.build">>
                       /\ UNCHANGED pullVars
    /\ UNCHANGED notPrepare

\* ---------------------------------------------------- prepare_environment
\* The variables prepare_environment assigns itself.
InjectedKeys ==
    { "PARADROP_CHUTE_NAME", "PARADROP_FEATURES", "PARADROP_ROUTER_ID",
      "PARADROP_DATA_DIR", "PARADROP_SYSTEM_DIR", "PARADROP_API_URL",
      "PARADROP_BASE_URL", "PARADROP_API_TOKEN", "PARADROP_WS_API_URL",
      "PARADROP_CHUTE_VERSION" }

\* The names a user may give a variable: two of them clash with injected ones.
UserKeys == {"DEBUG", "PARADROP_CHUTE_NAME", "PARADROP_API_TOKEN"}

\* The user's maps of one level; the value tells the level it was set at.
UserEnvs(level) == UNION { [keys -> {level}] : keys \in SUBSET UserKeys }

EmptyEnv == [k \in {} |-> "none"]

MergeBaseWins(base, top) ==
    [k \in DOMAIN base \cup DOMAIN top |->
        IF k \in DOMAIN base THEN base[k] ELSE top[k]]

\* base.update(top)
Merge(base, top) ==
    [k \in DOMAIN base \cup DOMAIN top |->
        IF k \in DOMAIN top THEN top[k] ELSE base[k]]

\* env['PARADROP_...'] = ..., for each of the injected variables
Inject(env) ==
    [k \in DOMAIN env \cup InjectedKeys |->
        IF k \in InjectedKeys THEN "injected" ELSE env[k]]

\* env = update.new.get_environment().copy(): env is a new dict, not the
\* chute's own.
EnvIsACopy == TRUE

PeIdle ==
    /\ pePc = "idle"
    /\ peChuteEnv = EmptyEnv
    /\ peServiceEnv = EmptyEnv
    /\ peEntry = [chute |-> EmptyEnv, service |-> EmptyEnv]
    /\ peEnv = EmptyEnv

\* prepare_environment(update, service), for any two user maps:
\* env = update.new.get_environment().copy()
PeCall ==
    /\ pePc = "idle"
    /\ \E chute \in UserEnvs("chute"), service \in UserEnvs("service") :
          /\ peChuteEnv' = chute
          /\ peServiceEnv' = service
          /\ peEntry' = [chute |-> chute, service |-> service]
          /\ peEnv' = chute
    /\ pePc' = "update"
    /\ UNCHANGED notEnvironment

\* env.update(service.environment)
PeUpdate ==
    /\ pePc = "update"
    /\ peEnv' = Merge(peEnv, peServiceEnv)
    /\ peChuteEnv' = IF EnvIsACopy THEN peChuteEnv ELSE Merge(peEnv, peServiceEnv)
    /\ pePc' = "inject"
    /\ UNCHANGED <<peServiceEnv, peEntry>>
    /\ UNCHANGED notEnvironment

\* The PARADROP_* assignments, and return env
PeInject ==
    /\ pePc = "inject"
    /\ peEnv' = Inject(peEnv)
    /\ peChuteEnv' = IF EnvIsACopy THEN peChuteEnv ELSE Inject(peEnv)
    /\ pePc' = "returned"
    /\ UNCHANGED <<peServiceEnv, peEntry>>
    /\ UNCHANGED notEnvironment

\* ------------------------------------------------------ ConfigApi.provision
\* reactor.callLater(6, dl.cancel)
ProvisionTimeout == 6

\* What the device holds when the request arrives.
CurrentInfo ==
    [routerId |-> "old", pdserver |-> "old", wampRouter |-> "old", apitoken |-> "old"]

\* The request bodies: each value the one the device holds or another one;
\* pdserver and wampRouter may be empty.
Bodies ==
    [routerId : {"old", "new"}, pdserver : {"old", "new", ""},
     wampRouter : {"old", "new", ""}, apitoken : {"old", "new"}]

\* The first test: routerId, pdserver or wampRouter differ.
IdentityChanged(body, info) ==
    \/ body.routerId # info.routerId
    \/ body.pdserver # info.pdserver
    \/ body.wampRouter # info.wampRouter

\* The second test: apitoken != nexus.core.getKey('apitoken')
TokenChanged(body, info) == body.apitoken # info.apitoken

\* The calls made before `if changed:`.
ProvisionCalls(body, info) ==
    (IF IdentityChanged(body, info)
       THEN (IF body.pdserver # "" /\ body.wampRouter # ""
               THEN <<"nexus.core.provision(routerId, pdserver, wampRouter)">>
               ELSE <<"nexus.core.provision(routerId)">>)
       ELSE << >>)
    \o (IF TokenChanged(body, info) THEN <<"nexus.core.saveKey">> ELSE << >>)

\* A Deferred has its result: it succeeded, failed or was cancelled.
Finished(deferred) == deferred \in {"succeeded", "failed", "cancelled"}

DeferredListFiresOnFirst(wamp, http) == Finished(wamp) \/ Finished(http)

\* DeferredList([wampDeferred, httpDeferred], consumeErrors=True) fires when
\* every Deferred of the list has its result.
DeferredListFires(wamp, http) == Finished(wamp) /\ Finished(http)

\* Deferred.cancel(): a Deferred without a result gets CancelledError.
Cancelled(deferred) == IF Finished(deferred) THEN deferred ELSE "cancelled"

\* send_response(result), the callback and errback of the DeferredList; it
\* can run once, since a Deferred fires once.
Responses(responses, wamp, http, clock) ==
    IF responses = << >> /\ DeferredListFires(wamp, http)
      THEN <<[kind |-> "provisioned", wamp |-> wamp, http |-> http, at |-> clock]>>
      ELSE responses

\* The request is pending until the Deferred the handler returned has fired.
PcAfter(responses) == IF responses = << >> THEN "pending" ELSE "answered"

PvIdle ==
    /\ pvPc = "idle"
    /\ pvBody = CurrentInfo
    /\ pvCalls = << >>
    /\ pvWamp = "none"
    /\ pvHttp = "none"
    /\ pvTimer = "none"
    /\ pvClock = 0
    /\ pvResponses = << >>

\* POST /provision.  The two Deferreds may have their result already when
\* they are handed back.
ProvisionRequest ==
    /\ pvPc = "idle"
    /\ \E body \in Bodies :
         /\ pvBody' = body
         /\ IF IdentityChanged(body, CurrentInfo) \/ TokenChanged(body, CurrentInfo)
              THEN \E wamp, http \in {"inflight", "succeeded", "failed"} :
                     /\ pvCalls' = ProvisionCalls(body, CurrentInfo)
                           \o <<"PDServerRequest.resetToken", "nexus.core.connect",
                                "sendStateReport">>
                     /\ pvWamp' = wamp
                     /\ pvHttp' = http
                     /\ pvTimer' = "pending"
                     /\ pvResponses' = Responses(pvResponses, wamp, http, pvClock)
                     /\ pvPc' = PcAfter(Responses(pvResponses, wamp, http, pvClock))
              ELSE /\ pvCalls' = ProvisionCalls(body, CurrentInfo)
                   /\ pvResponses' = <<[kind |-> "no change", wamp |-> "none",
                                        http |-> "none", at |-> pvClock]>>
                   /\ pvPc' = "answered"
                   /\ UNCHANGED <<pvWamp, pvHttp, pvTimer>>
    /\ pvClock' = pvClock
    /\ UNCHANGED notProvision

\* The WAMP connection succeeds or fails.
WampFinishes ==
    /\ pvWamp = "inflight"
    /\ \E outcome \in {"succeeded", "failed"} :
         /\ pvWamp' = outcome
         /\ pvResponses' = Responses(pvResponses, outcome, pvHttp, pvClock)
         /\ pvPc' = PcAfter(Responses(pvResponses, outcome, pvHttp, pvClock))
    /\ UNCHANGED <<pvBody, pvCalls, pvHttp, pvTimer, pvClock>>
    /\ UNCHANGED notProvision

\* The state report, and the start of polling after it, succeeds or fails.
HttpFinishes ==
    /\ pvHttp = "inflight"
    /\ \E outcome \in {"succeeded", "failed"} :
         /\ pvHttp' = outcome
         /\ pvResponses' = Responses(pvResponses, pvWamp, outcome, pvClock)
         /\ pvPc' = PcAfter(Responses(pvResponses, pvWamp, outcome, pvClock))
    /\ UNCHANGED <<pvBody, pvCalls, pvWamp, pvTimer, pvClock>>
    /\ UNCHANGED notProvision

\* A second passes while the delayed call is pending.
ProvisionTick ==
    /\ pvTimer = "pending"
    /\ pvClock < ProvisionTimeout
    /\ pvClock' = pvClock + 1
    /\ UNCHANGED <<pvPc, pvBody, pvCalls, pvWamp, pvHttp, pvTimer, pvResponses>>
    /\ UNCHANGED notProvision

\* The delayed call runs dl.cancel(): nothing when the list has fired,
\* otherwise the Deferreds still in flight are cancelled and the list fires.
ProvisionTimerFires ==
    /\ pvTimer = "pending"
    /\ pvClock = ProvisionTimeout
    /\ pvTimer' = "fired"
    /\ IF pvResponses = << >>
         THEN /\ pvWamp' = Cancelled(pvWamp)
              /\ pvHttp' = Cancelled(pvHttp)
              /\ pvResponses' = Responses(pvResponses, Cancelled(pvWamp),
                                          Cancelled(pvHttp), pvClock)
              /\ pvPc' = PcAfter(Responses(pvResponses, Cancelled(pvWamp),
                                           Cancelled(pvHttp), pvClock))
         ELSE UNCHANGED <<pvWamp, pvHttp, pvResponses, pvPc>>
    /\ UNCHANGED <<pvBody, pvCalls, pvClock>>
    /\ UNCHANGED notProvision

\* --------------------------------------------------------- specifications
ComponentsIdle == CrIdle /\ NsIdle /\ PullIdle /\ BuildIdle /\ PbIdle /\ IfIdle /\ RaIdle /\ SwIdle /\ SvIdle /\ PiIdle /\ PeIdle /\ PvIdle

Idle == ComponentsIdle /\ RtEmpty /\ LcIdle

\* The namespace executor: one call of call_in_netns, or of call_retry by
\* another caller.
InitNetns == Idle

NextNetns ==
    \/ DirectCall
    \/ NsCall
    \/ NsGetPidOk
    \/ NsGetPidRaises
    \/ NsPrimaryCall
    \/ CallRetryRuns
    \/ NsPrimaryEnd
    \/ NsCheck
    \/ NsFallbackLookupRaises
    \/ NsFallbackExecRaises
    \/ NsFallbackExecReturns

SpecNetns == InitNetns /\ [][NextNetns]_vars

\* One call of _pull_image on a stream chosen record by record.
NextPull == PullCall \/ PullLine \/ PullStreamRaises \/ PullEnd

SpecPull == Idle /\ [][NextPull]_vars

\* One call of _build_image on a stream chosen line by line.
NextBuild == BuildCall \/ BuildLine \/ BuildStreamRaises \/ BuildEnd

SpecBuild == Idle /\ [][NextBuild]_vars

\* One call of prepare_port_bindings.
NextPorts == PbCall \/ PbWebPort \/ PbInspect \/ PbInherit

SpecPorts == Idle /\ [][NextPorts]_vars

\* The lifecycle operations, one after the other, from any runtime state.
InitLifecycle == ComponentsIdle /\ RtAny /\ LcIdle

NextLifecycle ==
    \/ RemoveBridgeCall
    \/ RemoveBridgeGet
    \/ RemoveBridgeRemove
    \/ RemoveContainerCall
    \/ RemoveContainerGet
    \/ RemoveContainerLogs
    \/ RemoveContainerRemove
    \/ StartContainerCall
    \/ StartContainerConfig
    \/ StartContainerRun
    \/ StartContainerNetGet
    \/ StartContainerConnect
    \/ StopChuteCall
    \/ RestartChuteCall
    \/ ChuteGet
    \/ ChuteStopStart

SpecLifecycle == InitLifecycle /\ [][NextLifecycle]_vars

\* One update: setup_net_interfaces once, cleanup_net_interfaces before or
\* after it, possibly more than once.
NextPlumber ==
    \/ SetupCall
    \/ SetupGetPid
    \/ SetupHostCommand
    \/ SetupNetnsCommand
    \/ SetupRecord
    \/ SetupStore
    \/ CleanupNetInterfaces

SpecPlumber == Idle /\ [][NextPlumber]_vars

\* One allocation pass.
NextAllocation == RaCall \/ RaCpuShares \/ RaClassId \/ RaReturn

SpecAllocation == Idle /\ [][NextAllocation]_vars

\* One factory-reset sweep.
NextSweep == SweepCall \/ SweepRemove \/ SweepReturn

SpecSweep == Idle /\ [][NextSweep]_vars

\* The naming methods of any Service object.
InitService ==
    /\ CrIdle /\ NsIdle /\ PullIdle /\ BuildIdle /\ PbIdle /\ IfIdle /\ RaIdle /\ SwIdle
    /\ RtEmpty /\ LcIdle
    /\ SvAny
    /\ PiIdle
    /\ PeIdle
    /\ PvIdle

NextService == SvGetContainerName \/ SvGetImageName

SpecService == InitService /\ [][NextService]_vars

\* prepare_image and the worker function it enters.
NextPrepare ==
    \/ PrepareImageCall
    \/ PullLine
    \/ PullStreamRaises
    \/ PullEnd
    \/ BuildLine
    \/ BuildStreamRaises
    \/ BuildEnd

SpecPrepare == Idle /\ [][NextPrepare]_vars

\* One call of prepare_environment.
NextEnvironment == PeCall \/ PeUpdate \/ PeInject

SpecEnvironment == Idle /\ [][NextEnvironment]_vars

\* One provision request; the reactor lets time pass and runs the delayed
\* call when it is due.
NextProvision ==
    \/ ProvisionRequest
    \/ WampFinishes
    \/ HttpFinishes
    \/ ProvisionTick
    \/ ProvisionTimerFires

SpecProvision ==
    /\ Idle
    /\ [][NextProvision]_vars
    /\ WF_vars(ProvisionTick)
    /\ WF_vars(ProvisionTimerFires)

\* ------------------------------------------ claims: the namespace executor
\* The nsenter command did not end with exit status 0: it could not be
\* launched, it exited non-zero, or the code handed back is a non-zero int.
PrimaryFailed ==
    /\ nsCode # NoValue
    /\ \/ crPc = "raised"
       \/ crProc.launched /\ crProc.exit # 0
       \/ nsCode[1] = "int" /\ nsCode[2] # 0

\* C1: whenever the nsenter command of call_in_netns returns a non-zero code,
\* the docker exec fallback is attempted exactly once before call_in_netns
\* returns or raises: never zero times, never more than once.
C1_FallbackExactlyOnce ==
    /\ nsFallbacks <= 1
    /\ Len(nsExecs) <= nsFallbacks
    /\ (NsDone /\ PrimaryFailed) => nsFallbacks = 1

C1_Witness ==
    /\ NsDone
    /\ crProc.launched /\ crProc.exit = 1
    /\ nsFallbacks = 1
    /\ Len(nsExecs) = 1

\* C2: the fallback is used only if the nsenter command exits non-zero: when
\* it was launched and exited with code 0, no exec through the container
\* runtime is attempted or issued.
C2_NoFallbackAfterExitZero ==
    (nsPc # "idle" /\ crProc.launched /\ crProc.exit = 0)
        => (nsPc # "fallback" /\ nsFallbacks = 0 /\ nsExecs = <<>>)

\* The command ended with exit status 0 on the nsenter path, or on the
\* docker exec path.
SucceededOnPrimary == crProc.launched /\ crProc.exit = 0
SucceededOnFallback == \E i \in 1..Len(nsExecs) : nsExecs[i] = PyInt(0)

\* C3: with onerror="raise" call_in_netns returns normally only if the
\* command succeeded on the primary or on the fallback path, and a command
\* that failed on both is raised; with onerror="ignore" and a pid supplied
\* the call always returns normally.
C3_OnErrorPolicy ==
    NsDone =>
        /\ (nsOnerror = "raise" /\ nsPc = "returned")
              => (SucceededOnPrimary \/ SucceededOnFallback)
        /\ (nsOnerror = "ignore" /\ nsPidGiven) => nsPc = "returned"

\* C4: when every launch raises, call_retry makes exactly tries+1 launch
\* attempts, sleeps between consecutive attempts and re-raises; when attempt
\* k succeeds it has made exactly k attempts (k-1 failures, k-1 sleeps).
C4_TriesPlusOneAttempts ==
    /\ crPc = "raised" =>
          /\ Launches = crTries0 + 1
          /\ Sleeps = crTries0
    /\ (crPc = "returned" /\ crProc.launched) =>
          /\ CountOf(crTrace, {"launch"}) = 1
          /\ Sleeps = Launches - 1
          /\ crTrace[Len(crTrace)] = "launch"

\* C5: call_retry never retries on a non-zero exit: once a launch succeeded
\* no further launch is made, and the process's exit code is what call_retry
\* returns to the caller.
C5_ReturnsExitCode ==
    (crPc = "returned" /\ crProc.launched) =>
        /\ CountOf(crTrace, {"launch"}) = 1
        /\ crTrace[Len(crTrace)] = "launch"
        /\ crRet = PyInt(crProc.exit)

\* ------------------------------------------------ claims: the image manager
\* A status line that is counted: not a progress-bar line, with a status and
\* an id, and the status (whatever its case and surrounding blanks) is one of
\* the two names.
IsStatusLine(data, names) ==
    /\ data.progressDetail # "bar"
    /\ data.id # "absent"
    /\ data.status \in names

RECURSIVE StatusLines(_, _)
StatusLines(seen, names) ==
    IF seen = <<>> THEN 0
    ELSE (IF IsStatusLine(Head(seen), names) THEN 1 ELSE 0)
         + StatusLines(Tail(seen), names)

PullingLines == StatusLines(pullSeen, {"Pulling fs layer"})
CompleteLines == StatusLines(pullSeen, {"Pull complete", " PULL COMPLETE "})

C7_SuccessRequiresEqual ==
    pullPc = "returned" => CompleteLines = PullingLines

\* C7 as amended: if _pull_image returns without raising, the number of
\* "pull complete" lines is not less than the number of "pulling fs layer"
\* lines; both counters hold exactly the counts of those two status values.
C7_SuccessRequiresNoMissingLayer ==
    /\ layers = PullingLines
    /\ complete = CompleteLines
    /\ pullPc = "returned" => CompleteLines >= PullingLines

C7_Witness ==
    /\ pullPc = "returned"
    /\ PullingLines = 2
    /\ CompleteLines = 2
    /\ Len(pullSeen) = 5

\* Some record of the build stream has the key errorDetail.
SomeErrorDetailKey == \E i \in 1..Len(buildSeen) : HasKey(buildSeen[i], "errorDetail")

\* C8: _build_image raises a build failure if and only if some record of the
\* stream has an errorDetail key: with such a record a stream that completes
\* ends in the build failure, and without one no build failure is raised.
C8_BuildFailureIffErrorDetailKey ==
    /\ (buildPc \in {"returned", "raised"} /\ buildError \notin {"stream", "invalid"}
            /\ SomeErrorDetailKey)
          => (buildPc = "raised" /\ buildError = "build")
    /\ buildError = "build" => SomeErrorDetailKey

\* ------------------------------------------- claims: port binding resolver
\* The value the service requests for key k (a key the web port added is
\* unbound), and the host port the prior container publishes for k, if any.
Requested(k) ==
    IF k \in DOMAIN pbService.portBindings THEN pbService.portBindings[k] ELSE PyNone

HasPrevious(k) ==
    /\ pbOld[1] = "container"
    /\ k \in DOMAIN pbOld[2]
    /\ pbOld[2][k][1] = "list"

\* C9: in the map prepare_port_bindings returns, every key whose requested
\* host port is None and for which the prior container publishes a host port
\* holds that previous host port, and every key with an explicit host port
\* holds it unchanged.
C9_Inheritance ==
    pbPc = "returned" =>
        \A k \in DOMAIN pbBindings :
            /\ (Requested(k) = PyNone /\ HasPrevious(k))
                  => pbBindings[k] = pbOld[2][k][2][1].HostPort
            /\ Requested(k) # PyNone => pbBindings[k] = Requested(k)

\* old {"80/tcp": [{"HostPort": "8080"}]}, new {"80/tcp": None, 80: 9000}
C9_Witness ==
    /\ pbPc = "returned"
    /\ pbOld[1] = "container"
    /\ DOMAIN pbOld[2] = {StrOf("80/tcp")}
    /\ DOMAIN pbService.portBindings = {StrOf("80/tcp"), IntOf("80")}
    /\ pbService.portBindings[StrOf("80/tcp")] = PyNone
    /\ pbBindings[StrOf("80/tcp")] = StrOf("8080")
    /\ pbBindings[IntOf("80")] = IntOf("9000")

\* The chute declares a web port, this service serves it, and the request
\* holds the port under none of its spellings: bare, string, "port/tcp".
WebPortMissing ==
    /\ pbService.webPort # PyNone
    /\ pbService.webService = pbService.name
    /\ pbService.webPort \notin DOMAIN pbService.portBindings
    /\ StrOf(pbService.webPort[2]) \notin DOMAIN pbService.portBindings
    /\ StrOf(pbService.webPort[2] \o "/tcp") \notin DOMAIN pbService.portBindings

\* C10: prepare_port_bindings adds the unbound entry "<web_port>/tcp": None
\* exactly when the chute declares a web port, the web service is this
\* service and none of the three spellings is in the request; otherwise it
\* adds no key. The requested entries are kept as they are.
C10_WebPortInsertion ==
    pbPc \notin {"idle", "web"} =>
        /\ DOMAIN pbBindings =
              IF WebPortMissing
                THEN DOMAIN pbService.portBindings
                        \cup {StrOf(pbService.webPort[2] \o "/tcp")}
                ELSE DOMAIN pbService.portBindings
        /\ pbPc = "inspect" =>
              \A k \in DOMAIN pbBindings : pbBindings[k] = Requested(k)

C10_Witness ==
    /\ pbPc = "inspect"
    /\ WebPortMissing
    /\ pbService.portBindings # EmptyDict
    /\ StrOf("80/tcp") \in DOMAIN pbBindings
    /\ pbBindings[StrOf("80/tcp")] = PyNone

\* C11: absence during binding inheritance is the empty case: when no prior
\* container exists, or the prior container publishes no host port for a key
\* (the key is missing, or listed but unbound), prepare_port_bindings does
\* not raise and returns that key's binding as requested.
C11_AbsenceIsEmptyCase ==
    /\ pbPc # "raised"
    /\ pbPc = "returned" =>
          \A k \in DOMAIN pbBindings : ~HasPrevious(k) => pbBindings[k] = Requested(k)

\* ------------------------------- claims: the container lifecycle manager
\* The operation in progress (or the last one) has issued the runtime call.
Issued(call, name) == \E i \in 1..Len(lcCalls) : lcCalls[i] = <<call, name>>

\* C12: remove_container on a container that does not exist and
\* remove_bridge on a network that does not exist do not raise and leave the
\* runtime's state as it was, however often they are called in a row.
C12_RemovalIdempotent ==
    /\ (lcOp = "remove_container" /\ lcEntry.runtime.containers[LcName] = "absent")
          => /\ Runtime = lcEntry.runtime
             /\ lcResult # "raised"
             /\ lcPc = "idle" => lcResult = "returned"
    /\ (lcOp = "remove_bridge" /\ ChuteName \notin lcEntry.runtime.networks)
          => /\ Runtime = lcEntry.runtime
             /\ lcResult # "raised"
             /\ lcPc = "idle" => lcResult = "returned"

\* A second remove_container in a row, after the first one removed it.
C12_Witness ==
    /\ lcOps = 2
    /\ lcOp = "remove_container"
    /\ lcPc = "idle"
    /\ lcResult = "returned"
    /\ lcEntry.runtime.containers[LcName] = "absent"
    /\ lcEntry.progress = 1
    /\ lcProgress[1].container = LcName

\* C13: remove_container appends the container's last 40 log lines to the
\* progress log before it force-removes the container, and no error of the
\* lookup, the log capture, the progress append or the removal reaches the
\* caller.
C13_LogsBeforeRemoval ==
    lcOp = "remove_container" =>
        /\ lcResult # "raised"
        /\ Issued("container.remove", LcName) =>
              /\ Len(lcProgress) = lcEntry.progress + 1
              /\ LET last == lcProgress[Len(lcProgress)]
                 IN  /\ last.container = LcName
                     /\ last.lines <= LogTail
                     /\ last.lines = (IF last.of < LogTail THEN last.of ELSE LogTail)

C13_Witness ==
    /\ lcOp = "remove_container"
    /\ lcPc = "idle"
    /\ Issued("container.remove", LcName)
    /\ containers[LcName] = "absent"
    /\ lcProgress[Len(lcProgress)].of > LogTail
    /\ lcProgress[Len(lcProgress)].lines = LogTail

\* C14: in start_container a bridge network that is not found is not fatal:
\* start_container returns normally and the container it created is left
\* running; the bridge is looked up and connected only after the container
\* was created and started.
C14_BridgeMissingNotFatal ==
    lcOp = "start_container" =>
        /\ (lcPc = "idle" /\ lcCalls # <<>>
              /\ lcCalls[Len(lcCalls)] = <<"networks.get", ChuteName>>)
              => (lcResult = "returned" /\ containers[LcName] = "running")
        /\ \A i \in 1..Len(lcCalls) :
              lcCalls[i][1] \in {"networks.get", "network.connect"}
                 => /\ i > 1
                    /\ lcCalls[1] = <<"containers.run", LcName>>
                    /\ lcEntry.runtime.containers[LcName] = "absent"
                    /\ containers[LcName] = "running"

C14_Witness ==
    /\ lcOp = "start_container"
    /\ lcPc = "idle"
    /\ lcResult = "returned"
    /\ ChuteName \notin networks
    /\ lcCalls = <<<<"containers.run", LcName>>, <<"networks.get", ChuteName>>>>
    /\ containers[LcName] = "running"
    /\ LcName \notin connected

\* C15: stopChute and restartChute look up the container by the service's
\* container name (the chute's name for an unnamed service, otherwise
\* "<chute>-<service>") and issue stop/start on it; when no such container
\* exists the not-found error reaches the caller and no stop/start is issued.
C15_StopStartByContainerName ==
    (lcOp \in {"stopChute", "restartChute"} /\ lcPc = "idle") =>
        LET verb == IF lcOp = "stopChute" THEN "container.stop" ELSE "container.start"
        IN  IF lcEntry.runtime.containers[LcName] # "absent"
              THEN Issued(verb, LcName)
              ELSE /\ lcResult = "raised"
                   /\ \A i \in 1..Len(lcCalls) : lcCalls[i][1] # verb

\* ------------------------------------------- claims: the interface plumber
SetupFinished == ifPc \in {"returned", "raised"}

\* The records of a cache entry.
Records(cache) == IF cache[1] = "list" THEN cache[2] ELSE << >>

RecordSet(cache) == { Records(cache)[k] : k \in 1..Len(Records(cache)) }

\* The last cleanup issued the command for the device.
CleanupIssued(cmd, device) ==
    \E k \in 1..Len(clCmds) :
        clCmds[k] = [run |-> clRuns, device |-> device, cmd |-> cmd]

\* The commands that reverse the setup of a record.
Reversed(record) ==
    IF record.type = "wifi"
      THEN /\ CleanupIssued("ip link set dev internal down name external", record.external)
           /\ CleanupIssued("iw phy set netns 1", record.external)
           /\ CleanupIssued("resetWirelessDevice", record.external)
      ELSE CleanupIssued("ip link set dev internal down netns 1 name external", record.external)

\* C16: for every record that setup_net_interfaces stored (Wi-Fi monitor,
\* direct LAN), cleanup_net_interfaces on the stored list issues the rename
\* back and bring-down, the return to namespace 1 and, for Wi-Fi, the
\* wireless device reset.
C16_CleanupReversesSetup ==
    (clRuns > 0 /\ ifPc = "returned" /\ clEntry = ifCache) =>
        \A record \in RecordSet(clEntry) : Reversed(record)

\* C17: for any list of records that setup_net_interfaces produced,
\* cleanup_net_interfaces does not raise and gets to every record.
C17_CleanupBestEffort ==
    clRuns > 0 =>
        /\ clResult # "raised"
        /\ \A record \in RecordSet(clEntry) :
              \E k \in 1..Len(clCmds) :
                  clCmds[k].run = clRuns /\ clCmds[k].device = record.external

\* C18: with the cache entry absent or an empty list, a call of
\* cleanup_net_interfaces issues no command and no device reset, does not
\* raise, and leaves the cache entry as it was.
C18_CleanupNoOp ==
    [][(clRuns' = clRuns + 1 /\ (ifCache = PyNone \/ ifCache = EmptyList))
          => (clResult' = "returned" /\ clCmds' = clCmds /\ ifCache' = ifCache)]_vars

\* Cleanup has run both without a list and on the empty list setup stored.
C18_Witness ==
    /\ clRuns = 2
    /\ ifPc = "returned"
    /\ Len(ifInterfaces) > 0
    /\ clEntry = EmptyList
    /\ ifCache = EmptyList
    /\ clResult = "returned"
    /\ clCmds = << >>

\* Interface i is a borrowed device that was moved into the namespace.
MovedBorrowed(i) ==
    /\ Borrows(Branch(ifInterfaces[i]))
    /\ \E k \in 1..Len(ifCmds) :
          /\ ifCmds[k].iface = i
          /\ Moves(ifCmds[k].cmd)
          /\ ifCmds[k].exit = 0

\* C19: whenever setup_net_interfaces has finished, by returning or by
\* raising, every device it moved into a container namespace as borrowed
\* has its record in the list cached under 'borrowedInterfaces'.
C19_RecordsReachTheCache ==
    SetupFinished =>
        \A i \in 1..Len(ifInterfaces) :
            MovedBorrowed(i) =>
                BorrowedRecord(Branch(ifInterfaces[i]), i) \in RecordSet(ifCache)

\* C20: after cleanup_net_interfaces went through a record, the record is
\* no longer in the cache, and a second cleanup issues no command for it.
C20_CleanupConsumesRecords ==
    (clRuns > 0 /\ Len(Records(clEntry)) > 0) =>
        /\ Records(clEntry)[1] \notin RecordSet(ifCache)
        /\ clRuns > 1 =>
              \A k \in 1..Len(clCmds) :
                  ~(clCmds[k].run > 1 /\ clCmds[k].device = Records(clEntry)[1].external)

\* --------------------------------------------- claims: resource allocation
\* C21: for every container of the allocation map the class id written to
\* the classifier file is 0x10001 if prioritize_traffic is set and 0x10003
\* otherwise, also when the key is missing; no other value is written.
C21_ClassIdByPriority ==
    \A k \in 1..Len(raWrites) :
        LET resources == raAllocation[raWrites[k].container]
        IN  /\ raWrites[k].classid \in {"0x10001", "0x10003"}
            /\ raWrites[k].classid = "0x10001"
                  <=> resources.prioritize_traffic = PyTrue
            /\ resources.prioritize_traffic = NoValue
                  => raWrites[k].classid = "0x10003"

\* A pass that wrote the high-priority id for one container and the
\* best-effort id for one without the key.
C21_Witness ==
    /\ raPc = "returned"
    /\ \E j, k \in 1..Len(raWrites) :
          /\ raWrites[j].outcome = "written"
          /\ raWrites[j].classid = "0x10001"
          /\ raWrites[k].outcome = "written"
          /\ raWrites[k].classid = "0x10003"
          /\ raAllocation[raWrites[k].container].prioritize_traffic = NoValue

\* C22: a failure to write the classifier file of one container does not
\* abort the pass: the pass does not raise on it, and the CPU shares are
\* still updated and the classifier write attempted for the other containers.
C22_ClassifierFailureNotFatal ==
    /\ \A k \in 1..Len(raWrites) :
          (raWrites[k].outcome # "written" /\ raPc = "raised")
             => raIdx > raWrites[k].container
    /\ raPc = "returned" =>
          \A i \in 1..Len(raAllocation) :
              /\ \E k \in 1..Len(raShares) :
                    raShares[k] = [container |-> i, cpu_shares |-> raAllocation[i].cpu_shares]
              /\ \E k \in 1..Len(raWrites) : raWrites[k].container = i

\* The write failed for the first container and the second one got both.
C22_Witness ==
    /\ raPc = "returned"
    /\ Len(raWrites) = 2
    /\ raWrites[1].outcome = "write raised"
    /\ raWrites[2].outcome = "written"
    /\ Len(raShares) = 2

\* ------------------------------------------- claims: the container sweep
\* C23: removeAllContainers attempts a forced removal of every listed
\* container exactly once; a failed removal is appended to the update's
\* progress log, is not raised, and does not keep the later containers from
\* being attempted.
C23_SweepAttemptsEveryContainer ==
    /\ swPc = "raised" => (swListed = << >> /\ swAttempts = << >>)
    /\ \A k \in 1..Len(swAttempts) : swAttempts[k].container = k
    /\ Len(swProgress) = Cardinality({ k \in 1..Len(swAttempts) : ~swAttempts[k].removed })
    /\ swPc = "returned" => Len(swAttempts) = Len(swListed)

\* The first removal failed and the later containers were still removed.
C23_Witness ==
    /\ swPc = "returned"
    /\ Len(swListed) > 1
    /\ ~swAttempts[1].removed
    /\ swAttempts[Len(swListed)].removed
    /\ Len(swProgress) = 1

\* ----------------------------------------------------- claims: the Service
\* "<container_name>:<chute.version>"
SynthesizedImage(service) ==
    StrOf((IF service.name = PyNone
             THEN service.chute.name
             ELSE service.chute.name \o "-" \o service.name[2])
          \o ":" \o service.chute.version)

\* C24: get_container_name is chute.name when the service name is null and
\* "<chute.name>-<service.name>" otherwise, and the result is the same for
\* every service type.
C24_ContainerName ==
    svContainerName # NoValue =>
        /\ svService.name = PyNone => svContainerName = StrOf(svService.chute.name)
        /\ svService.name # PyNone =>
              svContainerName = StrOf(svService.chute.name \o "-" \o svService.name[2])
        /\ \A type \in ServiceTypes :
              StrOf(get_container_name([svService EXCEPT !.type = type])) = svContainerName

C24_Witness ==
    /\ svService.type = "light"
    /\ svService.name = StrOf("main")
    /\ svService.chute.name = "c"
    /\ svContainerName = StrOf("c-main")

\* C25 as stated: get_image_name returns the declared image unless the
\* service type is light; for a light service it returns
\* "<container_name>:<chute.version>" whatever image is declared.
C25_DeclaredUnlessLight ==
    svImageName # NoValue =>
        IF svService.type = "light"
          THEN svImageName = SynthesizedImage(svService)
          ELSE svImageName = svService.image

\* C25 amended: get_image_name returns the declared image when an image is
\* declared and the service type is not light; for a light service, and for
\* a service that declares no image, it returns
\* "<container_name>:<chute.version>".
C25_DeclaredUnlessLightOrUndeclared ==
    svImageName # NoValue =>
        IF svService.type = "light" \/ svService.image = PyNone
          THEN svImageName = SynthesizedImage(svService)
          ELSE svImageName = svService.image

\* A light service with a declared image gets the synthesized name.
C25_Witness ==
    /\ svService.type = "light"
    /\ svService.image = StrOf("python2")
    /\ svService.name = PyNone
    /\ svService.chute = [name |-> "d", version |-> "2"]
    /\ svImageName = StrOf("d:2")

\* ------------------------------------------------- claims: prepare_image
\* C26: prepare_image selects by service type: image pulls by name, inline
\* builds from the in-memory Dockerfile, any other type builds from the
\* working directory; for a light service the Dockerfile is synthesized as
\* an in-memory string, and an inconsistent spec fails with a validation
\* error before any build is issued; all of it with either wrapper.
C26_SelectionByType ==
    piPc = "called" =>
        /\ piType = "image" =>
              (piSelection.fn = "_pull_image" /\ piSelection.source = "name")
        /\ piType = "inline" =>
              (piSelection.fn = "_build_image" /\ piSelection.source = "fileobj")
        /\ piType \notin {"image", "inline"} =>
              (piSelection.fn = "_build_image" /\ piSelection.source = "path")
        /\ (piType = "light" /\ buildArgs.valid) => piDockerfile = "fileobj"
        /\ (piType = "light" /\ ~buildArgs.valid) =>
              (buildPc = "raised" /\ buildError = "invalid" /\ piIssued = << >>)

\* ------------------------------------------- claims: prepare_environment
\* C27: in the environment prepare_environment returns, a service-level
\* variable wins over the chute-level variable of the same name, the
\* injected PARADROP_* variables win over any user-supplied variable of the
\* same name, and the chute's and the service's own maps are unchanged.
C27_EnvironmentPrecedence ==
    /\ peChuteEnv = peEntry.chute
    /\ peServiceEnv = peEntry.service
    /\ pePc = "returned" =>
          /\ DOMAIN peEnv = DOMAIN peEntry.chute \cup DOMAIN peEntry.service \cup InjectedKeys
          /\ \A k \in DOMAIN peEnv :
                peEnv[k] = IF k \in InjectedKeys THEN "injected"
                           ELSE IF k \in DOMAIN peEntry.service THEN "service"
                           ELSE "chute"

\* A variable set at both levels, and an injected name set by the user.
C27_Witness ==
    /\ pePc = "returned"
    /\ "DEBUG" \in DOMAIN peEntry.chute
    /\ "DEBUG" \in DOMAIN peEntry.service
    /\ peEnv["DEBUG"] = "service"
    /\ "PARADROP_API_TOKEN" \in DOMAIN peEntry.service
    /\ peEnv["PARADROP_API_TOKEN"] = "injected"
    /\ peChuteEnv["DEBUG"] = "chute"

\* The commands issued for interface i, in order, with where they ran.
RECURSIVE StepsOf(_, _)
StepsOf(cmds, i) ==
    IF cmds = << >>
      THEN << >>
      ELSE (IF Head(cmds).iface = i
              THEN << <<Head(cmds).cmd, Head(cmds).where>> >>
              ELSE << >>) \o StepsOf(Tail(cmds), i)

IsPrefix(s, t) == Len(s) <= Len(t) /\ \A k \in 1..Len(s) : s[k] = t[k]

\* The steps of a LAN, VLAN or Wi-Fi access-point interface.
MacvlanSteps ==
    << <<"ip link add link external dev tmp type macvlan", "host">>,
       <<"ip link set tmp up", "host">>,
       <<"ip link set tmp netns pid", "host">>,
       <<"ip link set tmp name internal", "netns">>,
       <<"ip addr add IP dev internal", "netns">>,
       <<"ip link set internal up", "netns">> >>

IsMacvlan(iface) ==
    \/ iface.type \in {"lan", "vlan"}
    \/ (iface.type = "wifi" /\ iface.mode = "ap")

\* C28: for a LAN, VLAN or Wi-Fi access-point interface the steps are
\* issued in this order: create the macvlan under a temporary name, bring it
\* up, move it into the namespace by pid, then inside the namespace rename it
\* to the internal name, assign the address, bring it up; the internal name
\* is never assigned in the host namespace.
C28_MacvlanOrder ==
    \A i \in 1..Len(ifInterfaces) :
        IsMacvlan(ifInterfaces[i]) =>
            /\ IsPrefix(StepsOf(ifCmds, i), MacvlanSteps)
            /\ \A k \in 1..Len(ifCmds) :
                  (ifCmds[k].iface = i /\ ifCmds[k].cmd = "ip link set tmp name internal")
                     => /\ ifCmds[k].where = "netns"
                        /\ \E j \in 1..(k - 1) :
                              /\ ifCmds[j].iface = i
                              /\ ifCmds[j].cmd = "ip link set tmp netns pid"
            /\ (ifPc = "returned" \/ ifIdx > i) => StepsOf(ifCmds, i) = MacvlanSteps

\* A VLAN interface went through all six steps.
C28_Witness ==
    /\ ifPc = "returned"
    /\ Len(ifInterfaces) > 0
    /\ ifInterfaces[1].type = "vlan"
    /\ StepsOf(ifCmds, 1) = MacvlanSteps

\* C29: if the host-side command that moves an interface or radio into the
\* container's namespace exits non-zero, setup_net_interfaces aborts with an
\* error, issues no further command for that interface and records no
\* Borrowed Interface Record for it.
C29_MoveFailureIsFatal ==
    \A k \in 1..Len(ifCmds) :
        (ifCmds[k].where = "host" /\ Moves(ifCmds[k].cmd) /\ ifCmds[k].exit # 0) =>
            /\ \A j \in (k + 1)..Len(ifCmds) : ifCmds[j].iface # ifCmds[k].iface
            /\ \A j \in 1..Len(ifBorrowed) :
                  ifBorrowed[j].external # <<"external", ifCmds[k].iface>>
            /\ ifPc # "returned"
            /\ ifIdx = ifCmds[k].iface

\* ------------------------------- claims: the namespace executor, retries
\* C30: when launching the nsenter command from call_in_netns raises a
\* launch error, the launch is attempted again at least once, and a bounded
\* number of times, before the primary path is treated as failed.
C30_LaunchFailureRetried ==
    (nsPc \notin {"idle", "primary"} /\ nsCode = PyInt(-1)) =>
        /\ Launches >= 2
        /\ Launches <= NetnsTries + 1

\* C31: for every interface, setup_net_interfaces resolves the container's
\* process id before it issues any ip/iw command for that interface; when
\* the container does not exist it raises, and issues no plumbing command
\* for that interface or for any later one.
C31_PidBeforePlumbing ==
    /\ \A k \in 1..Len(ifCmds) :
          /\ ifCmds[k].iface <= Len(ifPids)
          /\ ifPids[ifCmds[k].iface] = "pid"
    /\ \A i \in 1..Len(ifPids) :
          ifPids[i] = "missing" =>
              /\ ifPc = "raised"
              /\ \A k \in 1..Len(ifCmds) : ifCmds[k].iface < i

\* The first interface was plumbed, the container of the second is missing.
C31_Witness ==
    /\ ifPc = "raised"
    /\ ifPids = <<"pid", "missing">>
    /\ Len(ifCmds) > 0
    /\ Borrows(Branch(ifInterfaces[1]))
    /\ \A k \in 1..Len(ifCmds) : ifCmds[k].iface = 1

\* ---------------------------------- claims: port binding resolver, frame
\* C33: prepare_port_bindings never modifies the service's own requested
\* port-bindings map: at every point of a call, with or without a web-port
\* insertion and with or without inheritance, it holds the keys and values
\* it held when the call was entered.
C33_RequestUnchanged == pbService.portBindings = pbEntry

\* A call that inserted the web port and inherited a previous host port.
C33_Witness ==
    /\ pbPc = "returned"
    /\ pbService.portBindings = pbEntry
    /\ DOMAIN pbBindings # DOMAIN pbEntry
    /\ \E k \in DOMAIN pbEntry : pbEntry[k] = PyNone /\ pbBindings[k] # PyNone

\* ------------------------------------------------- claims: ConfigApi.provision
ProvisionChanged ==
    IdentityChanged(pvBody, CurrentInfo) \/ TokenChanged(pvBody, CurrentInfo)

ProvisionStarted(call) == \E i \in 1..Len(pvCalls) : pvCalls[i] = call

\* A changing request has at most one response, produced when both Deferreds
\* have their result; one of them is cancelled only by the delayed call, at
\* the timeout.  A request that changes nothing is answered at once, with
\* success false, and has reset no token and started no connection or report.
ProvisionAnswersSafely ==
    /\ Len(pvResponses) <= 1
    /\ pvPc = "answered" <=> Len(pvResponses) = 1
    /\ pvPc # "idle" /\ ProvisionChanged =>
          /\ ProvisionStarted("PDServerRequest.resetToken")
          /\ ProvisionStarted("nexus.core.connect")
          /\ ProvisionStarted("sendStateReport")
          /\ \A i \in 1..Len(pvResponses) :
                /\ pvResponses[i].kind = "provisioned"
                /\ pvResponses[i].wamp = pvWamp
                /\ pvResponses[i].http = pvHttp
                /\ Finished(pvWamp) /\ Finished(pvHttp)
                /\ "cancelled" \in {pvWamp, pvHttp} =>
                      pvTimer = "fired" /\ pvResponses[i].at = ProvisionTimeout
          /\ "cancelled" \in {pvWamp, pvHttp} => pvResponses # << >>
    /\ pvPc # "idle" /\ ~ProvisionChanged =>
          /\ pvResponses = <<[kind |-> "no change", wamp |-> "none",
                              http |-> "none", at |-> 0]>>
          /\ pvCalls = << >>
          /\ pvWamp = "none" /\ pvHttp = "none" /\ pvTimer = "none"

\* C32: a provision request that changes the router identity, the server, the
\* WAMP router or the API token gets its response exactly once: when both the
\* WAMP connection and the state report have finished, by success or failure,
\* or, while one is still in flight, when the 6-second delayed call cancels
\* it; the response is never replaced, and it does come.  A request that
\* changes nothing resets no token, starts no connection or report and is
\* answered with success false.
C32_ProvisionAnswersOnce ==
    /\ []ProvisionAnswersSafely
    /\ [][pvResponses # << >> => pvResponses' = pvResponses]_vars
    /\ (pvPc = "pending") ~> (pvPc = "answered" /\ Len(pvResponses) = 1)

\* The state report succeeded, the WAMP connection was still in flight after
\* 6 seconds, the delayed call cancelled it and the response was produced then.
C32_Witness ==
    /\ pvPc = "answered"
    /\ pvTimer = "fired"
    /\ pvWamp = "cancelled"
    /\ pvHttp = "succeeded"
    /\ pvResponses = <<[kind |-> "provisioned", wamp |-> "cancelled",
                        http |-> "succeeded", at |-> ProvisionTimeout]>>

====
